---- MODULE Spec2Model ----
(***************************************************************************)
(* MakeYourText: the rule-based rewrite engine of the server               *)
(* (server/src/services/rewriteEngine.ts), its safety gate                 *)
(* (server/src/services/safety.ts) and the preset catalog                  *)
(* (server/src/data/presets.ts).                                           *)
(*                                                                         *)
(* A JavaScript string is a sequence of tokens, one token per UTF-16 code  *)
(* unit, so Len is String.prototype.length.  An ASCII character is the     *)
(* one-character string of itself; a Hangul syllable is the romanisation   *)
(* of its jamo (initial, vowel, final; the empty initial is written x), a  *)
(* lower-case string of two letters or more: "bu","tag" is 부탁.  A line    *)
(* feed is "NL".  The Korean text of every literal is given in the comment *)
(* at the end of its line.                                                 *)
(***************************************************************************)
EXTENDS Integers, Sequences, FiniteSets, TLC

(***************************************************************************)
(* Character classes of the regular expressions.                           *)
(***************************************************************************)
LowerSeq == <<"a","b","c","d","e","f","g","h","i","j","k","l","m",
              "n","o","p","q","r","s","t","u","v","w","x","y","z">>
UpperSeq == <<"A","B","C","D","E","F","G","H","I","J","K","L","M",
              "N","O","P","Q","R","S","T","U","V","W","X","Y","Z">>
Lower == {LowerSeq[i] : i \in 1..26}
Upper == {UpperSeq[i] : i \in 1..26}
Digit == {"0","1","2","3","4","5","6","7","8","9"}
Space == {" ", "NL", "TAB"}
Jamo  == {"JK", "JH", "JYU"}

IsLatin(c)    == c \in Lower \/ c \in Upper
IsWordChar(c) == IsLatin(c) \/ c \in Digit \/ c = "_"
IsHangul(c)   == Len(c) > 1 /\ c \notin Space /\ c \notin Jamo

toLowerCase1(c) == IF c \in Upper THEN LowerSeq[CHOOSE i \in 1..26 : UpperSeq[i] = c] ELSE c
toUpperCase1(c) == IF c \in Lower THEN UpperSeq[CHOOSE i \in 1..26 : LowerSeq[i] = c] ELSE c
toLowerCase(s)  == [i \in 1..Len(s) |-> toLowerCase1(s[i])]
toUpperCase(s)  == [i \in 1..Len(s) |-> toUpperCase1(s[i])]

ClassHas(cls, c) ==
    CASE cls = "latin"  -> IsLatin(c)
      [] cls = "upper"  -> c \in Upper
      [] cls = "space"  -> c \in Space
      [] cls = "digit"  -> c \in Digit
      [] cls = "hangul" -> IsHangul(c)
      [] cls = "dot"    -> c # "NL"

(***************************************************************************)
(* String.prototype methods on literal arguments.                          *)
(***************************************************************************)
MatchAt(s, pat, i) ==
    /\ i >= 1
    /\ i + Len(pat) - 1 <= Len(s)
    /\ \A j \in 1..Len(pat) : s[i + j - 1] = pat[j]

Min(S) == CHOOSE k \in S : \A m \in S : k <= m

\* s.indexOf(pat, i - 1) + 1: the first position at or after i where pat occurs, or 0
IndexFrom(s, pat, i) ==
    LET hits == {k \in i..(Len(s) - Len(pat) + 1) : MatchAt(s, pat, k)}
    IN  IF hits = {} THEN 0 ELSE Min(hits)

includes(s, pat)   == IndexFrom(s, pat, 1) # 0
startsWith(s, pat) == MatchAt(s, pat, 1)
endsWith(s, pat)   == Len(pat) <= Len(s) /\ MatchAt(s, pat, Len(s) - Len(pat) + 1)
substring(s, a, b) == SubSeq(s, a + 1, IF b < Len(s) THEN b ELSE Len(s))

\* s.replace(/pat/g, rep) for a pattern that is one literal
RECURSIVE replaceAll(_, _, _)
replaceAll(s, pat, rep) ==
    LET k == IndexFrom(s, pat, 1)
    IN  IF k = 0 THEN s
        ELSE SubSeq(s, 1, k - 1) \o rep
               \o replaceAll(SubSeq(s, k + Len(pat), Len(s)), pat, rep)

trimStart(s) ==
    LET kept == {k \in 1..Len(s) : s[k] \notin Space}
    IN  IF kept = {} THEN <<>> ELSE SubSeq(s, Min(kept), Len(s))
trimEnd(s) ==
    LET kept == {k \in 1..Len(s) : s[k] \notin Space}
    IN  IF kept = {} THEN <<>> ELSE SubSeq(s, 1, CHOOSE k \in kept : \A m \in kept : m <= k)
trim(s) == trimEnd(trimStart(s))

\* s.split(/\s+/).filter(w => w.trim().length > 0)
\* the position after the run of non-space characters that starts at i
RunEnd(s, i) ==
    LET stops == {k \in i..Len(s) : s[k] \in Space}
    IN  IF stops = {} THEN Len(s) + 1 ELSE Min(stops)
RECURSIVE splitWords(_)
splitWords(s) ==
    LET t == trimStart(s)
    IN  IF t = <<>> THEN <<>>
        ELSE LET e == RunEnd(t, 1)
             IN  <<SubSeq(t, 1, e - 1)>> \o splitWords(SubSeq(t, e, Len(t)))

RECURSIVE join(_, _)
join(ws, sep) ==
    IF ws = <<>> THEN <<>>
    ELSE IF Len(ws) = 1 THEN ws[1]
    ELSE ws[1] \o sep \o join(Tail(ws), sep)

\* s.replace(/\s+/g, ' ')
collapseSpaces(s) ==
    LET first(k) == s[k] \notin Space \/ k = 1 \/ s[k - 1] \notin Space
        kept     == SelectSeq([k \in 1..Len(s) |-> k], first)
    IN  [j \in 1..Len(kept) |-> IF s[kept[j]] \in Space THEN " " ELSE s[kept[j]]]

(***************************************************************************)
(* Regular expressions.  A pattern is a sequence of items: a character     *)
(* class with its quantifier ("set": one of the listed tokens; "cls": a    *)
(* named class; neg complements; max = -1 is unbounded), an anchor         *)
(* ("bol" ^, "eol" $, "wb" \b), a negative lookahead ("nla"), an           *)
(* alternation of patterns ("alt") or a starred group ("star").            *)
(* RxEnd is the backtracking matcher: quantifiers are greedy and           *)
(* alternatives are tried in order, as by RegExp.prototype.exec.           *)
(***************************************************************************)
One(S)        == [t |-> "set", set |-> S, neg |-> FALSE, min |-> 1, max |-> 1]
Opt(S)        == [t |-> "set", set |-> S, neg |-> FALSE, min |-> 0, max |-> 1]
NotStar(S)    == [t |-> "set", set |-> S, neg |-> TRUE,  min |-> 0, max |-> -1]
Cls(c)        == [t |-> "cls", cls |-> c, neg |-> FALSE, min |-> 1, max |-> 1]
NotCls(c)     == [t |-> "cls", cls |-> c, neg |-> TRUE,  min |-> 1, max |-> 1]
Plus(c)       == [t |-> "cls", cls |-> c, neg |-> FALSE, min |-> 1, max |-> -1]
Star(c)       == [t |-> "cls", cls |-> c, neg |-> FALSE, min |-> 0, max |-> -1]
AtLeast(S, n) == [t |-> "set", set |-> S, neg |-> FALSE, min |-> n, max |-> -1]
StarSet(S)    == [t |-> "set", set |-> S, neg |-> FALSE, min |-> 0, max |-> -1]
Bol           == [t |-> "bol"]
Eol           == [t |-> "eol"]
Wb            == [t |-> "wb"]
Nla(p)        == [t |-> "nla", p |-> p]
Alt(ps)       == [t |-> "alt", ps |-> ps]
StarGrp(p)    == [t |-> "star", p |-> p]
\* a literal, and a literal under the i flag
Lit(w)        == [i \in 1..Len(w) |-> One({w[i]})]
LitI(w)       == [i \in 1..Len(w) |-> One({toLowerCase1(w[i]), toUpperCase1(w[i])})]
\* /a|b|c/ of literals
AltLit(ws)    == <<Alt([i \in 1..Len(ws) |-> Lit(ws[i])])>>

ItemHas(it, c) ==
    IF it.t = "set" THEN (c \in it.set) # it.neg ELSE ClassHas(it.cls, c) # it.neg

IsWordBoundary(s, i) ==
    LET before == i > 1 /\ IsWordChar(s[i - 1])
        after  == i <= Len(s) /\ IsWordChar(s[i])
    IN  before # after

\* the longest run of the item's characters that starts at i, up to the item's max
RunLen(s, i, it) ==
    LET last  == IF it.max = -1 \/ i + it.max - 1 > Len(s) THEN Len(s) ELSE i + it.max - 1
        stops == {k \in i..last : ~ItemHas(it, s[k])}
    IN  IF stops = {} THEN last - i + 1 ELSE Min(stops) - i

RECURSIVE RxEnd(_, _, _, _), RxRep(_, _, _, _, _), RxAlt(_, _, _, _, _)
RxEnd(s, i, p, k) ==
    IF k > Len(p) THEN i
    ELSE LET it == p[k]
         IN  CASE it.t = "bol"  -> IF i = 1 THEN RxEnd(s, i, p, k + 1) ELSE 0
               [] it.t = "eol"  -> IF i = Len(s) + 1 THEN RxEnd(s, i, p, k + 1) ELSE 0
               [] it.t = "wb"   -> IF IsWordBoundary(s, i) THEN RxEnd(s, i, p, k + 1) ELSE 0
               [] it.t = "nla"  -> IF RxEnd(s, i, it.p, 1) = 0
                                   THEN RxEnd(s, i, p, k + 1) ELSE 0
               [] it.t = "alt"  -> RxAlt(s, i, p, k, 1)
               [] it.t = "star" ->
                    LET e == RxEnd(s, i, it.p \o SubSeq(p, k, Len(p)), 1)
                    IN  IF e # 0 THEN e ELSE RxEnd(s, i, p, k + 1)
               [] OTHER         -> RxRep(s, i, p, k, RunLen(s, i, it))
RxRep(s, i, p, k, n) ==
    IF n < p[k].min THEN 0
    ELSE LET e == RxEnd(s, i + n, p, k + 1)
         IN  IF e # 0 THEN e ELSE RxRep(s, i, p, k, n - 1)
RxAlt(s, i, p, k, j) ==
    IF j > Len(p[k].ps) THEN 0
    ELSE LET e == RxEnd(s, i, p[k].ps[j] \o SubSeq(p, k + 1, Len(p)), 1)
         IN  IF e # 0 THEN e ELSE RxAlt(s, i, p, k, j + 1)

\* the leftmost match at or after position from: <<start, end>>, end exclusive; <<0, 0>>
RxFind(s, p, from) ==
    LET hits == {k \in from..(Len(s) + 1) : RxEnd(s, k, p, 1) # 0}
    IN  IF hits = {} THEN <<0, 0>> ELSE <<Min(hits), RxEnd(s, Min(hits), p, 1)>>

\* re.test(s) of a regular expression without the g flag
test(s, p) == RxFind(s, p, 1)[1] # 0

\* s.replace(re, rep) of a regular expression without the g flag
replaceFirst(s, p, rep) ==
    LET m == RxFind(s, p, 1)
    IN  IF m[1] = 0 THEN s
        ELSE SubSeq(s, 1, m[1] - 1) \o rep \o SubSeq(s, m[2], Len(s))

\* s.replace(re, rep) of a regular expression with the g flag
RECURSIVE RxReplaceFrom(_, _, _, _)
RxReplaceFrom(s, p, rep, pos) ==
    LET m == RxFind(s, p, pos)
    IN  IF m[1] = 0 THEN SubSeq(s, pos, Len(s))
        ELSE IF m[2] > m[1]
             THEN SubSeq(s, pos, m[1] - 1) \o rep \o RxReplaceFrom(s, p, rep, m[2])
             ELSE SubSeq(s, pos, m[1]) \o rep
                    \o (IF m[1] > Len(s) THEN <<>> ELSE RxReplaceFrom(s, p, rep, m[1] + 1))
replace(s, p, rep) == RxReplaceFrom(s, p, rep, 1)

\* s.match(re) of a regular expression with the g flag (<<>> for null)
RECURSIVE RxMatchFrom(_, _, _)
RxMatchFrom(s, p, pos) ==
    LET m == RxFind(s, p, pos)
    IN  IF m[1] = 0 THEN <<>>
        ELSE <<SubSeq(s, m[1], m[2] - 1)>>
               \o (IF m[2] > m[1] THEN RxMatchFrom(s, p, m[2])
                   ELSE IF m[1] > Len(s) THEN <<>> ELSE RxMatchFrom(s, p, m[1] + 1))
matchAll(s, p) == RxMatchFrom(s, p, 1)

\* re.test(s) of a regular expression with the g flag, whose lastIndex is li:
\* the search starts at lastIndex; a match leaves lastIndex at its end, a failure at 0
execG(s, p, li) ==
    LET m == IF li > Len(s) THEN <<0, 0>> ELSE RxFind(s, p, li + 1)
    IN  IF m[1] = 0 THEN [found |-> FALSE, lastIndex |-> 0]
        ELSE [found |-> TRUE, lastIndex |-> m[2] - 1]

\* s.replace(/a/g, x).replace(/b/g, y)... : literal patterns, in order
RECURSIVE replaceEach(_, _)
replaceEach(s, rs) ==
    IF rs = <<>> \/ s = <<>> THEN s
    ELSE replaceEach(replaceAll(s, rs[1][1], rs[1][2]), Tail(rs))

\* the same for regular expressions with the g flag
RECURSIVE rxReplaceEach(_, _)
rxReplaceEach(s, rs) ==
    IF rs = <<>> \/ s = <<>> THEN s
    ELSE rxReplaceEach(replace(s, rs[1][1], rs[1][2]), Tail(rs))

\* s.replace(re, m => first ? m : '') : the first match is kept, the later ones removed
removeAfterFirst(s, p) ==
    LET m == RxFind(s, p, 1)
    IN  IF m[1] = 0 \/ m[2] = m[1] THEN s
        ELSE SubSeq(s, 1, m[2] - 1) \o RxReplaceFrom(s, p, <<>>, m[2])

hasHangul(s)  == \E i \in 1..Len(s) : IsHangul(s[i])     \* /[가-힣]/.test(s)
hasEnglish(s) == \E i \in 1..Len(s) : IsLatin(s[i])      \* /[A-Za-z]/.test(s)
\* s.replace(/[^가-힣]/g, '').length === 0
noHangulLeft(s) == ~hasHangul(s)

(***************************************************************************)
(* data/presets.ts: the preset catalog.                                    *)
(***************************************************************************)
TONE_PRESETS ==
    << [id |-> "cultured",      category |-> "base"],
       [id |-> "friendly",      category |-> "base"],
       [id |-> "firm",          category |-> "base"],
       [id |-> "warm",          category |-> "base"],
       [id |-> "apology",       category |-> "apology"],
       [id |-> "humorous",      category |-> "base"],
       [id |-> "warning",       category |-> "strong"],
       [id |-> "protest",       category |-> "strong"],
       [id |-> "notice-formal", category |-> "base"] >>
AUDIENCE_LEVELS == {"elementary1", "elementary", "middle", "high", "adult", "senior"}
RELATIONSHIPS   == {"friend", "teacher", "parent", "boss", "customer", "client"}
PURPOSE_TYPES   == {"request", "notice", "apology", "review", "complaint"}

ToneIds     == {TONE_PRESETS[i].id : i \in 1..Len(TONE_PRESETS)}
StrongTones == {TONE_PRESETS[i].id : i \in {j \in 1..Len(TONE_PRESETS) :
                                              TONE_PRESETS[j].category = "strong"}}

(***************************************************************************)
(* services/safety.ts.  Every pattern of the two tables carries the g      *)
(* flag, and the tables are module-level: the RegExp objects, and so       *)
(* their lastIndex, live as long as the process.                           *)
(***************************************************************************)
\* /a.*b/
Gap(a, b) == Lit(a) \o <<Star("dot")>> \o Lit(b)

DANGEROUS_PATTERNS ==
    << <<Alt(<<Lit(<<"sal", "hae">>), Lit(<<"sal", "xin">>), Lit(<<"jug", "xyeo">>), Lit(<<"ttae", "ryeo">>), Lit(<<"pog", "haeng">>),  \* 살해 | 살인 | 죽여 | 때려 | 폭행
               Lit(<<"gu", "ta">>), Lit(<<"pog", "ryeog">>), Lit(<<"hae", "chi">>), Lit(<<"hae", "ko", "ji">>), Lit(<<"hae", "chi", "xwo">>),  \* 구타 | 폭력 | 해치 | 해코지 | 해치워
               Lit(<<"xeobs", "xae">>), Lit(<<"je", "geo", "hae">>), Lit(<<"jug", "xil">>), Lit(<<"jug", "xi", "gess">>), Lit(<<"jug", "xi", "ge">>)>>)>>,  \* 없애 | 제거해 | 죽일 | 죽이겠 | 죽이게
       <<Alt(<<Gap(<<"ga", "jog">>, <<"xwi", "hyeob">>), Gap(<<"ga", "jog">>, <<"hae", "chi">>), Gap(<<"ga", "jog">>, <<"hae", "ko", "ji">>),  \* 가족 | 위협 | 가족 | 해치 | 가족 | 해코지
               Gap(<<"ga", "jog">>, <<"ttae", "ryeo">>), Gap(<<"ga", "jog">>, <<"jug", "xyeo">>)>>)>>,  \* 가족 | 때려 | 가족 | 죽여
       <<Alt(<<Lit(<<"te", "reo">>), Lit(<<"pog", "tan">>), Lit(<<"pog", "bal">>), Lit(<<"sal", "sang">>), Lit(<<"pog", "pa">>)>>)>>,  \* 테러 | 폭탄 | 폭발 | 살상 | 폭파
       <<Alt(<<Gap(<<"hyeob", "bag">>, <<"sal", "hae">>), Gap(<<"hyeob", "bag">>, <<"pog", "haeng">>), Gap(<<"hyeob", "bag">>, <<"hae", "chi">>)>>)>>,  \* 협박 | 살해 | 협박 | 폭행 | 협박 | 해치
       <<Alt(<<Gap(<<"hyeob", "bag">>, <<"bul", "beob">>), Lit(<<"gal", "chwi">>), Gap(<<"gang", "xyo">>, <<"bul", "beob">>),  \* 협박 | 불법 | 갈취 | 강요 | 불법
               Gap(<<"gang", "je">>, <<"bul", "beob">>), Gap(<<"xeog", "xab">>, <<"bul", "beob">>)>>)>>,  \* 강제 | 불법 | 억압 | 불법
       <<Alt(<<Lit(<<"seu", "to", "king">>), Lit(<<"tta", "ra", "da", "ni">>), Lit(<<"chu", "jeog", "hae">>), Gap(<<"gam", "si", "hae">>, <<"bul", "beob">>)>>)>>,  \* 스토킹 | 따라다니 | 추적해 | 감시해 | 불법
       <<Alt(<<Gap(<<"bul", "beob">>, <<"chwal", "xyeong">>), Lit(<<"mol", "ka">>), Lit(<<"do", "chwal">>),  \* 불법 | 촬영 | 몰카 | 도촬
               Gap(<<"bul", "beob">>, <<"chwal", "xyeong">>) \o <<Star("dot")>> \o Lit(<<"xyu", "po">>)>>)>>,  \* 불법 | 촬영 | 유포
       <<Alt(<<Lit(<<"hae", "king">>), Lit(<<"chim", "xib">>), Gap(<<"bul", "beob">>, <<"jeob", "geun">>), Gap(<<"bul", "beob">>, <<"chim", "xib">>)>>)>>,  \* 해킹 | 침입 | 불법 | 접근 | 불법 | 침입
       <<Alt(<<Lit(<<"sa", "gi">>), Lit(<<"sa", "ching">>), Gap(<<"xwi", "jo">>, <<"mun", "seo">>), Gap(<<"xwi", "jo">>, <<"jeung", "myeong">>)>>)>>,  \* 사기 | 사칭 | 위조 | 문서 | 위조 | 증명
       <<Alt(<<Lit(<<"ssi", "bal">>), Lit(<<"gae", "sae", "kki">>), Lit(<<"byeong", "sin">>), Lit(<<"mi", "chin", "nom">>), Lit(<<"joj">>),  \* 씨발 | 개새끼 | 병신 | 미친놈 | 좆
               Lit(<<"ssib">>), Lit(<<"ppa", "gu", "ri">>), Lit(<<"gae", "gat">>), Lit(<<"joj", "gat">>), Lit(<<"ssib", "sae">>)>>)>>,  \* 씹 | 빠구리 | 개같 | 좆같 | 씹새
       <<Alt(<<Gap(<<"hyeom", "xo">>, <<"pyo", "hyeon">>), Gap(<<"cha", "byeol">>, <<"pyo", "hyeon">>), Gap(<<"bi", "ha">>, <<"pyo", "hyeon">>)>>)>>,  \* 혐오 | 표현 | 차별 | 표현 | 비하 | 표현
       <<Alt(<<Gap(<<"ju", "min", "beon", "ho">>, <<"xal", "ryeo">>), Gap(<<"gye", "jwa", "beon", "ho">>, <<"xal", "ryeo">>), Gap(<<"bi", "mil", "beon", "ho">>, <<"xal", "ryeo">>),  \* 주민번호 | 알려 | 계좌번호 | 알려 | 비밀번호 | 알려
               Gap(<<"ka", "deu", "beon", "ho">>, <<"xal", "ryeo">>), Gap(<<"ju", "so">>, <<"xal", "ryeo">>), Gap(<<"jeon", "hwa", "beon", "ho">>, <<"xal", "ryeo">>)>>)>>,  \* 카드번호 | 알려 | 주소 | 알려 | 전화번호 | 알려
       <<Alt(<<Gap(<<"ju", "min", "beon", "ho">>, <<"bo", "nae">>), Gap(<<"gye", "jwa", "beon", "ho">>, <<"bo", "nae">>), Gap(<<"bi", "mil", "beon", "ho">>, <<"bo", "nae">>)>>)>> >>  \* 주민번호 | 보내 | 계좌번호 | 보내 | 비밀번호 | 보내

ALLOWED_STRONG_EXPRESSIONS ==
    << <<Alt(<<Gap(<<"beob", "jeog">>, <<"jeol", "cha">>), Gap(<<"beob", "jeog">>, <<"geom", "to">>), Gap(<<"beob", "jeog">>, <<"dae", "xeung">>)>>)>>,  \* 법적 | 절차 | 법적 | 검토 | 법적 | 대응
       <<Alt(<<Lit(<<"hwan", "bul">>), Gap(<<"gye", "xyag">>, <<"hae", "ji">>), Gap(<<"min", "xwon">>, <<"jeob", "su">>), Gap(<<"si", "jeong">>, <<"xyo", "gu">>)>>)>>,  \* 환불 | 계약 | 해지 | 민원 | 접수 | 시정 | 요구
       <<Alt(<<Gap(<<"gi", "han">>, <<"nae">>), Gap(<<"gi", "han">>, <<"myeong", "si">>), Gap(<<"choe", "jong">>, <<"tong", "bo">>)>>)>> >>  \* 기한 | 내 | 기한 | 명시 | 최종 | 통보

\* for (const re of table) if (re.test(text)) ..., and table.some(re => re.test(text)):
\* the patterns are tested in order up to the first that matches; li is the table's
\* lastIndex values and every test leaves its pattern's lastIndex behind
RECURSIVE someTest(_, _, _, _)
someTest(table, text, li, k) ==
    IF k > Len(table) THEN [found |-> FALSE, lastIndex |-> li]
    ELSE LET tested(r) ==
                 IF r.found
                 THEN [found |-> TRUE, lastIndex |-> [li EXCEPT ![k] = r.lastIndex]]
                 ELSE someTest(table, text, [li EXCEPT ![k] = r.lastIndex], k + 1)
         IN  tested(execG(text, table[k], li[k]))

\* validateTextSafety(text, tonePresetId), given the lastIndex values of the two tables
validateTextSafety(text, tonePresetId, dangerousLI, allowedLI) ==
    LET isStrongTone == tonePresetId \in StrongTones
        strong(hasAllowed, hasDangerous) ==
            [blocked |-> hasDangerous.found /\ ~hasAllowed.found,
             reason  |-> IF hasDangerous.found /\ ~hasAllowed.found
                         THEN "strongTone" ELSE "none",
             dangerousLI |-> hasDangerous.lastIndex, allowedLI |-> hasAllowed.lastIndex]
        checked(scan) ==
            IF scan.found
            THEN [blocked |-> TRUE, reason |-> "dangerous",
                  dangerousLI |-> scan.lastIndex, allowedLI |-> allowedLI]
            ELSE IF isStrongTone
            THEN strong(someTest(ALLOWED_STRONG_EXPRESSIONS, text, allowedLI, 1),
                        someTest(DANGEROUS_PATTERNS, text, scan.lastIndex, 1))
            ELSE [blocked |-> FALSE, reason |-> "none",
                  dangerousLI |-> scan.lastIndex, allowedLI |-> allowedLI]
    IN  checked(someTest(DANGEROUS_PATTERNS, text, dangerousLI, 1))
(***************************************************************************)
(* services/rewriteEngine.ts: the repair passes.                           *)
(***************************************************************************)
particlePatterns ==
    << <<Bol>> \o Lit(<<"xeu", "ro">>) \o <<Plus("space")>>,  \* 으로
       <<Bol>> \o Lit(<<"ro">>) \o <<Plus("space")>>,  \* 로
       <<Plus("space")>> \o Lit(<<"xeu", "ro">>) \o <<Star("space"), Eol>>,  \* 으로
       <<Plus("space")>> \o Lit(<<"ro">>) \o <<Star("space"), Eol>>,  \* 로
       <<Plus("space")>> \o Lit(<<"xeu", "ro">>) \o <<Plus("space"), NotCls("hangul")>>,  \* 으로
       <<Plus("space")>> \o Lit(<<"ro">>) \o <<Plus("space"), NotCls("hangul")>> >>  \* 로

RECURSIVE particleLoop(_, _, _)
particleLoop(result, originalText, k) ==
    IF k > Len(particlePatterns) THEN result
    ELSE IF test(result, particlePatterns[k])
         THEN particleLoop(
                 IF Len(trim(originalText)) > 0
                 THEN trim(originalText) \o <<"xe", " ", "dae", "hae", " ", "xan", "nae", "deu", "rib", "ni", "da", ".">>  \* 에 대해 안내드립니다.
                 ELSE trim(replaceFirst(result, particlePatterns[k], <<" ">>)),
                 originalText, k + 1)
         ELSE particleLoop(result, originalText, k + 1)

validateParticleOnlyIssue(text, originalText) == particleLoop(text, originalText, 1)

\* /[A-Za-z]+(?:\s+[A-Za-z]+)*/g
englishRuns == <<Plus("latin"), StarGrp(<<Plus("space"), Plus("latin")>>)>>
\* /\b[A-Za-z]+\b/g
englishWord == <<Wb, Plus("latin"), Wb>>
\* /\([^)]*[A-Za-z][^)]*\)/
parenWithEnglish == <<One({"("}), NotStar({")"}), Cls("latin"), NotStar({")"}), One({")"})>>

\* the words (lower-cased) that occur more than once, in the order of their first
\* occurrence, each as the spelling of its first occurrence
RECURSIVE duplicatedWords(_, _, _)
duplicatedWords(ws, k, seen) ==
    IF k > Len(ws) THEN <<>>
    ELSE LET lw == toLowerCase(ws[k])
         IN  IF lw \notin seen /\ Cardinality({j \in 1..Len(ws) : toLowerCase(ws[j]) = lw}) > 1
             THEN <<ws[k]>> \o duplicatedWords(ws, k + 1, seen \cup {lw})
             ELSE duplicatedWords(ws, k + 1, seen \cup {lw})

\* for each duplicated word: tempText.replace(/\bword\b/g, keep the first)
RECURSIVE dedupeWords(_, _)
dedupeWords(s, dups) ==
    IF dups = <<>> THEN s
    ELSE dedupeWords(removeAfterFirst(s, <<Wb>> \o Lit(dups[1]) \o <<Wb>>), Tail(dups))

\* the OFF branch needs convertEnglishToKorean, defined with the transformation stages
validateEnglishHelperModeOn(text, englishHelperMode, originalText) ==
    LET append(englishStr) ==
            IF ~includes(text, englishStr) /\ ~test(text, parenWithEnglish)
               /\ ~includes(text, <<"NL">> \o englishStr)
            THEN IF englishHelperMode = "paren" THEN text \o <<" ", "(">> \o englishStr \o <<")">>
                 ELSE IF englishHelperMode = "twoLines" THEN text \o <<"NL">> \o englishStr
                 ELSE text
            ELSE text
        restore(englishParts) ==
            IF englishParts # <<>> THEN append(join(englishParts, <<" ">>)) ELSE text
        dedupe(restored, dups) ==
            IF hasEnglish(text) /\ dups # <<>>
            THEN trim(collapseSpaces(dedupeWords(restored, dups)))
            ELSE restored
        deduped(restored) ==
            dedupe(restored, duplicatedWords(matchAll(restored, englishWord), 1, {}))
    IN  deduped(IF ~hasEnglish(text) /\ hasEnglish(originalText)
                THEN restore(matchAll(originalText, englishRuns))
                ELSE text)

\* /\b해\b(?!주세요|주시기|주시면|주셔야)/ and /\b써\b(?!...)/
NotHonorific == Nla(AltLit(<<<<"ju", "se", "xyo">>, <<"ju", "si", "gi">>, <<"ju", "si", "myeon">>, <<"ju", "syeo", "xya">>>>))  \* 주세요 | 주시기 | 주시면 | 주셔야
BareHae == <<Wb>> \o Lit(<<"hae">>) \o <<Wb, NotHonorific>>  \* 해
BareSseo == <<Wb>> \o Lit(<<"sseo">>) \o <<Wb, NotHonorific>>  \* 써
Word(w) == <<Wb>> \o Lit(w) \o <<Wb>>

informalToFormal ==
    << <<BareHae, <<"hae", " ", "ju", "se", "xyo">>>>,  \* 해 주세요
       <<Word(<<"hae", "bwa">>), <<"hae", " ", "ju", "se", "xyo">>>>,  \* 해봐 | 해 주세요
       <<Word(<<"hae", "jwo">>), <<"hae", " ", "ju", "se", "xyo">>>>,  \* 해줘 | 해 주세요
       <<Word(<<"sseo", "jwo">>), <<"sseo", " ", "ju", "se", "xyo">>>>,  \* 써줘 | 써 주세요
       <<Word(<<"ha", "ji", "ma">>), <<"ha", "ji", " ", "mal", "xa", " ", "ju", "se", "xyo">>>>,  \* 하지마 | 하지 말아 주세요
       <<Word(<<"ha", "ji", " ", "ma">>), <<"ha", "ji", " ", "mal", "xa", " ", "ju", "se", "xyo">>>>,  \* 하지 마 | 하지 말아 주세요
       <<BareSseo, <<"sseo", " ", "ju", "se", "xyo">>>>,  \* 써 주세요
       <<Word(<<"hae", "ra">>), <<"hae", " ", "ju", "se", "xyo">>>>,  \* 해라 | 해 주세요
       <<Word(<<"sseo", "ra">>), <<"sseo", " ", "ju", "se", "xyo">>>> >>  \* 써라 | 써 주세요

validateFormalConsistency(text, toneId) ==
    LET isFormalTone == toneId \in {"notice-formal", "cultured", "firm", "warning", "protest"}
        informalPatterns ==
            <<BareHae, Word(<<"hae", "bwa">>), Word(<<"hae", "jwo">>), Word(<<"sseo", "jwo">>), Word(<<"ha", "ji", "ma">>),  \* 해봐 | 해줘 | 써줘 | 하지마
              Word(<<"ha", "ji", " ", "ma">>), BareSseo, Word(<<"hae", "ra">>), Word(<<"sseo", "ra">>)>>  \* 하지 마 | 해라 | 써라
        formalPatterns ==
            <<<<"hab", "ni", "da">>, <<"deu", "rib", "ni", "da">>, <<"hae", "ju", "se", "xyo">>, <<"hae", " ", "ju", "se", "xyo">>, <<"ha", "sib", "si", "xo">>,  \* 합니다 | 드립니다 | 해주세요 | 해 주세요 | 하십시오
              <<"bu", "tag", "deu", "rib", "ni", "da">>, <<"xyo", "cheong", "deu", "rib", "ni", "da">>, <<"ba", "rab", "ni", "da">>, <<"hae", " ", "ju", "si", "gi", " ", "ba", "rab", "ni", "da">>>>  \* 부탁드립니다 | 요청드립니다 | 바랍니다 | 해 주시기 바랍니다
        hasInformal == \E k \in 1..Len(informalPatterns) : test(text, informalPatterns[k])
        hasFormal   == \E k \in 1..Len(formalPatterns) : includes(text, formalPatterns[k])
    IN  IF hasInformal /\ hasFormal
        THEN IF isFormalTone
             THEN rxReplaceEach(text, informalToFormal)
             ELSE replaceEach(text,
                    << <<<<"hab", "ni", "da">>, <<"hae", "xyo">>>>,  \* 합니다 | 해요
                       <<<<"deu", "rib", "ni", "da">>, <<"deu", "ryeo", "xyo">>>>,  \* 드립니다 | 드려요
                       <<<<"hae", "ju", "se", "xyo">>, <<"hae", " ", "ju", "se", "xyo">>>>,  \* 해주세요 | 해 주세요
                       <<<<"hae", " ", "ju", "se", "xyo">>, <<"hae", " ", "ju", "se", "xyo">>>>,  \* 해 주세요 | 해 주세요
                       <<<<"ha", "sib", "si", "xo">>, <<"hae", " ", "ju", "se", "xyo">>>>,  \* 하십시오 | 해 주세요
                       <<<<"bu", "tag", "deu", "rib", "ni", "da">>, <<"bu", "tag", "deu", "ryeo", "xyo">>>>,  \* 부탁드립니다 | 부탁드려요
                       <<<<"xyo", "cheong", "deu", "rib", "ni", "da">>, <<"xyo", "cheong", "hae", "xyo">>>>,  \* 요청드립니다 | 요청해요
                       <<<<"ba", "rab", "ni", "da">>, <<"ba", "rae", "xyo">>>>,  \* 바랍니다 | 바래요
                       <<<<"hae", " ", "ju", "si", "gi", " ", "ba", "rab", "ni", "da">>, <<"hae", " ", "ju", "se", "xyo">>>> >>)  \* 해 주시기 바랍니다 | 해 주세요
        ELSE IF hasInformal /\ isFormalTone
        THEN rxReplaceEach(text, informalToFormal)
        ELSE text

\* /\d+일|\d+시간|\d+분|\d+주|\d+개월|\d+년/
Num(unit) == <<Plus("digit")>> \o Lit(unit)

hasTimeExpression(text) ==
    \/ \E w \in {<<"xo", "neul">>, <<"nae", "xil">>, <<"mo", "re">>, <<"da", "xeum", "ju">>, <<"da", "xeum", " ", "ju">>, <<"xi", "beon", "ju">>, <<"xi", "beon", " ", "ju">>} :  \* 오늘 | 내일 | 모레 | 다음주 | 다음 주 | 이번주 | 이번 주
          includes(text, w)
    \/ \E w \in {<<"kka", "ji">>, <<"nae">>, <<"jeon">>, <<"hu">>, <<"xi", "hu">>, <<"xi", "jeon">>} : includes(text, w)  \* 까지 | 내 | 전 | 후 | 이후 | 이전
    \/ \E u \in {<<"xil">>, <<"si", "gan">>, <<"bun">>, <<"ju">>, <<"gae", "xwol">>, <<"nyeon">>} : test(text, Num(u))  \* 일 | 시간 | 분 | 주 | 개월 | 년
    \/ \E w \in {<<"gi", "han">>, <<"ma", "gam">>, <<"de", "deu", "ra", "xin">>, <<"d", "e", "a", "d", "l", "i", "n", "e">>, <<"d", "u", "e">>} : includes(text, w)  \* 기한 | 마감 | 데드라인
    \/ \E w \in {<<"xo", "jeon">>, <<"xo", "hu">>, <<"xa", "chim">>, <<"jeom", "sim">>, <<"jeo", "nyeog">>, <<"bam">>} : includes(text, w)  \* 오전 | 오후 | 아침 | 점심 | 저녁 | 밤
    \/ \E w \in {<<"xwol", "xyo", "xil">>, <<"hwa", "xyo", "xil">>, <<"su", "xyo", "xil">>, <<"mog", "xyo", "xil">>, <<"geum", "xyo", "xil">>, <<"to", "xyo", "xil">>, <<"xil", "xyo", "xil">>} :  \* 월요일 | 화요일 | 수요일 | 목요일 | 금요일 | 토요일 | 일요일
          includes(text, w)

hasActionExpression(text) ==
    \/ \E w \in {<<"jo", "chi">>, <<"je", "jae">>, <<"sin", "go">>, <<"toe", "sil">>, <<"cha", "dan">>, <<"beob", "jeog">>, <<"beob", "jeog", " ", "jeol", "cha">>, <<"go", "so">>,  \* 조치 | 제재 | 신고 | 퇴실 | 차단 | 법적 | 법적 절차 | 고소
                 <<"go", "bal">>, <<"min", "xwon">>, <<"hwan", "bul">>, <<"hae", "ji">>, <<"gye", "xyag", " ", "hae", "ji">>} : includes(text, w)  \* 고발 | 민원 | 환불 | 해지 | 계약 해지
    \/ \E w \in {<<"bul", "xi", "xig">>, <<"son", "hae">>, <<"bae", "sang">>, <<"bo", "sang">>, <<"chaeg", "xim">>} : includes(text, w)  \* 불이익 | 손해 | 배상 | 보상 | 책임
    \/ \E w \in {<<"chwi", "ha">>, <<"si", "jeong">>, <<"gae", "seon">>, <<"su", "jeong">>, <<"byeon", "gyeong">>} : includes(text, w)  \* 취하 | 시정 | 개선 | 수정 | 변경

deadlinePatterns ==
    << Lit(<<"gi", "han", " ", "nae">>),  \* 기한 내
       Lit(<<"gi", "han", "kka", "ji">>),  \* 기한까지
       Lit(<<"xo", "neul", " ", "jung", "xeu", "ro">>),  \* 오늘 중으로
       Lit(<<"nae", "xil", "kka", "ji">>),  \* 내일까지
       Lit(<<"xo", "neul", "kka", "ji">>),  \* 오늘까지
       Lit(<<"xo", "neul", " ", "xo", "hu", " ">>) \o <<Plus("digit")>> \o Lit(<<"si", "kka", "ji">>),  \* 오늘 오후  | 시까지
       Lit(<<"xo", "neul", " ">>) \o <<Plus("digit")>> \o Lit(<<"si", "kka", "ji">>),  \* 오늘  | 시까지
       Lit(<<"nae", "xil", " ">>) \o <<Plus("digit")>> \o Lit(<<"si", "kka", "ji">>),  \* 내일  | 시까지
       <<Plus("digit")>> \o Lit(<<"xil", "kka", "ji">>),  \* 일까지
       <<Plus("digit")>> \o Lit(<<"si", "gan", " ", "nae">>),  \* 시간 내
       <<Plus("digit")>> \o Lit(<<"bun", " ", "nae">>) >>  \* 분 내

actionPhrases ==
    << <<"da", "xeum", " ", "jo", "chi", "reul", " ", "chwi", "ha", "gess", "seub", "ni", "da">>,  \* 다음 조치를 취하겠습니다
       <<"da", "xeum", " ", "jo", "chi">>,  \* 다음 조치
       <<"bul", "xi", "xig", "xeul", " ", "deu", "ril", " ", "su", " ", "xiss", "seub", "ni", "da">>,  \* 불이익을 드릴 수 있습니다
       <<"bul", "xi", "xig">>,  \* 불이익
       <<"je", "jae", "reul", " ", "ga", "ha", "gess", "seub", "ni", "da">>,  \* 제재를 가하겠습니다
       <<"je", "jae">>,  \* 제재
       <<"beob", "jeog", " ", "jeol", "cha", "reul", " ", "geom", "to", "ha", "gess", "seub", "ni", "da">>,  \* 법적 절차를 검토하겠습니다
       <<"beob", "jeog", " ", "jeol", "cha">>,  \* 법적 절차
       <<"si", "jeong", "xi", " ", "xi", "ru", "xeo", "ji", "ji", " ", "xanh", "xeul", " ", "gyeong", "xu", " ", "da", "xeum", " ", "jo", "chi", "reul", " ", "chwi", "ha", "gess", "seub", "ni", "da">>,  \* 시정이 이루어지지 않을 경우 다음 조치를 취하겠습니다
       <<"si", "jeong", "xi", " ", "xi", "ru", "xeo", "ji", "ji", " ", "xanh", "xeul", " ", "gyeong", "xu">> >>  \* 시정이 이루어지지 않을 경우

RECURSIVE removeEachRx(_, _, _)
removeEachRx(s, ps, k) ==
    IF k > Len(ps) \/ s = <<>> THEN s ELSE removeEachRx(replace(s, ps[k], <<>>), ps, k + 1)
RECURSIVE removeEach(_, _, _)
removeEach(s, ws, k) ==
    IF k > Len(ws) \/ s = <<>> THEN s ELSE removeEach(replaceAll(s, ws[k], <<>>), ws, k + 1)

validateContextIntegrity(result, originalText) ==
    LET rule1(output) ==
            IF ~hasTimeExpression(originalText)
            THEN replace(removeEachRx(output, deadlinePatterns, 1),
                         <<Star("space")>> \o Lit(<<"gi", "han">>) \o <<Star("space")>>, <<" ">>)  \* 기한
            ELSE output
        rule2(output) ==
            IF ~hasActionExpression(originalText)
            THEN removeEach(output, actionPhrases, 1)
            ELSE output
    IN  replace(trim(collapseSpaces(rule2(rule1(result)))), <<AtLeast({"."}, 2)>>, <<".">>)
(***************************************************************************)
(* services/rewriteEngine.ts: the transformation stages.                   *)
(***************************************************************************)
normalizeInputText(text, toneId) ==
    LET isFormal   == toneId \in {"notice-formal", "cultured", "firm"}
        isFriendly == toneId \in {"friendly", "humorous"}
        relaxed(s) ==
            IF toneId \in {"notice-formal", "cultured"}
            THEN removeEach(s, <<<<"gwaen", "chanh", "xeu", "si", "myeon">>, <<"ga", "neung", "ha", "si", "myeon">>, <<"si", "gan", " ", "doe", "si", "myeon">>>>, 1)  \* 괜찮으시면 | 가능하시면 | 시간 되시면
            ELSE s
        \* if (result.includes(a) || result.includes(b) || ...) result = result.replace(/a|b|.../g, rep)
        replaceIfAny(s, ws, rep) == IF test(s, AltLit(ws)) THEN replace(s, AltLit(ws), rep) ELSE s
        write(s) == replaceIfAny(s, <<<<"sseo", " ", "jwo">>, <<"jom", " ", "sseo">>, <<"sseo", "jul", "rae">>, <<"sseo", "jwo">>>>,  \* 써 줘 | 좀 써 | 써줄래 | 써줘
                                 IF isFormal THEN <<"jag", "seong", " ", "bu", "tag", "deu", "rib", "ni", "da">>  \* 작성 부탁드립니다
                                 ELSE IF isFriendly THEN <<"sseo", " ", "ju", "se", "xyo">> ELSE <<"jag", "seong", "hae", " ", "ju", "se", "xyo">>)  \* 써 주세요 | 작성해 주세요
        do(s)    == replaceIfAny(s, <<<<"hae", " ", "jwo">>, <<"jom", " ", "hae">>, <<"hae", "jwo">>, <<"hae", "jul", "rae">>>>,  \* 해 줘 | 좀 해 | 해줘 | 해줄래
                                 IF isFormal THEN <<"jin", "haeng", " ", "bu", "tag", "deu", "rib", "ni", "da">>  \* 진행 부탁드립니다
                                 ELSE IF isFriendly THEN <<"hae", " ", "ju", "se", "xyo">> ELSE <<"jin", "haeng", "hae", " ", "ju", "se", "xyo">>)  \* 해 주세요 | 진행해 주세요
        tell(s)  == replaceIfAny(s, <<<<"xal", "ryeo", " ", "jwo">>, <<"xal", "ryeo", "jwo">>>>,  \* 알려 줘 | 알려줘
                                 IF isFormal THEN <<"gong", "xyu", " ", "bu", "tag", "deu", "rib", "ni", "da">> ELSE <<"xal", "ryeo", " ", "ju", "se", "xyo">>)  \* 공유 부탁드립니다 | 알려 주세요
        doyo(s)  == replaceIfAny(s, <<<<"hae", " ", "jwo", "xyo">>, <<"hae", "jwo", "xyo">>>>,  \* 해 줘요 | 해줘요
                                 IF isFormal THEN <<"bu", "tag", "deu", "rib", "ni", "da">> ELSE <<"hae", " ", "ju", "se", "xyo">>)  \* 부탁드립니다 | 해 주세요
    IN  trim(doyo(tell(do(write(relaxed(
          removeEach(text,
            <<<<"sseo", " ", "jwo">>, <<"hae", " ", "jwo">>, <<"hae", "jwo">>, <<"jom", " ", "hae">>, <<"jom", " ", "sseo">>, <<"hae", "jul", "rae">>, <<"hae", "bwa">>,  \* 써 줘 | 해 줘 | 해줘 | 좀 해 | 좀 써 | 해줄래 | 해봐
              <<"hae", "ra">>, <<"sseo", "ra">>, <<"ha", "ji", "ma">>, <<"ha", "ji", " ", "ma">>, <<"xa", "mu", " ", "ttae", "na">>, <<"dae", "chung">>,  \* 해라 | 써라 | 하지마 | 하지 마 | 아무 때나 | 대충
              <<"dae", "ryag">>, <<"jeog", "dang", "hi">>>>, 1)))))))  \* 대략 | 적당히

\* /[드리겠습니다|부탁드립니다|요청드립니다|안내드립니다|바랍니다]\.?$/ : one character
\* of the class, an optional full stop, the end
FormalEndingClass ==
    {"deu", "ri", "gess", "seub", "ni", "da", "|", "bu", "tag", "rib", "xyo", "cheong",  \* 드 | 리 | 겠 | 습 | 니 | 다 | 부 | 탁 | 립 | 요 | 청
     "xan", "nae", "ba", "rab"}  \* 안 | 내 | 바 | 랍

\* the three replacements every tone but cultured ends with
haeEndings ==
    << <<BareHae, <<"hae", " ", "ju", "se", "xyo">>>>,  \* 해 주세요
       <<Word(<<"hae", "bwa">>), <<"hae", " ", "ju", "se", "xyo">>>>,  \* 해봐 | 해 주세요
       <<Word(<<"hae", "jwo">>), <<"hae", " ", "ju", "se", "xyo">>>> >>  \* 해줘 | 해 주세요

applyToneEnding(text, toneId, variantType) ==
    CASE toneId = "notice-formal" ->
           LET ended(r) ==
                   IF ~test(r, <<One(FormalEndingClass), Opt({"."}), Eol>>)
                      /\ Len(trim(r)) > 0 /\ ~endsWith(r, <<".">>)
                   THEN r \o <<" ", "bu", "tag", "deu", "rib", "ni", "da", ".">>  \*  부탁드립니다.
                   ELSE r
           IN  ended(rxReplaceEach(
                      replace(replace(replaceEach(text,
                          << <<<<"hae", "ju", "se", "xyo">>, <<"bu", "tag", "deu", "rib", "ni", "da">>>>,  \* 해주세요 | 부탁드립니다
                             <<<<"hae", "xyo">>, <<"deu", "rib", "ni", "da">>>> >>),  \* 해요 | 드립니다
                        Lit(<<"jyo", "?">>), <<"deu", "rib", "ni", "da">>),  \* 죠? | 드립니다
                        Lit(<<"hal", "rae", "xyo", "?">>), <<"bu", "tag", "deu", "rib", "ni", "da">>),  \* 할래요? | 부탁드립니다
                      haeEndings))
      [] toneId = "cultured" ->
           rxReplaceEach(
             replaceEach(text,
               << <<<<"hae", "jwo">>, <<"hae", " ", "ju", "si", "gi", " ", "ba", "rab", "ni", "da">>>>,  \* 해줘 | 해 주시기 바랍니다
                  <<<<"sseo", "jwo">>, <<"jag", "seong", "hae", " ", "ju", "si", "gi", " ", "ba", "rab", "ni", "da">>>>,  \* 써줘 | 작성해 주시기 바랍니다
                  <<<<"hae", " ", "ju", "se", "xyo">>, <<"hae", " ", "ju", "si", "gi", " ", "ba", "rab", "ni", "da">>>>,  \* 해 주세요 | 해 주시기 바랍니다
                  <<<<"hae", "xyo">>, <<"hae", " ", "ju", "si", "gi", " ", "ba", "rab", "ni", "da">>>> >>),  \* 해요 | 해 주시기 바랍니다
             << <<BareHae, <<"hae", " ", "ju", "si", "gi", " ", "ba", "rab", "ni", "da">>>>,  \* 해 주시기 바랍니다
                <<Word(<<"hae", "bwa">>), <<"hae", " ", "ju", "si", "gi", " ", "ba", "rab", "ni", "da">>>> >>)  \* 해봐 | 해 주시기 바랍니다
      [] toneId = "friendly" ->
           rxReplaceEach(
             replaceEach(text,
               << <<<<"bu", "tag", "deu", "rib", "ni", "da">>, <<"bu", "tag", "deu", "ryeo", "xyo">>>>,  \* 부탁드립니다 | 부탁드려요
                  <<<<"xyo", "cheong", "deu", "rib", "ni", "da">>, <<"xyo", "cheong", "hae", "xyo">>>>,  \* 요청드립니다 | 요청해요
                  <<<<"xan", "nae", "deu", "rib", "ni", "da">>, <<"xal", "ryeo", "deu", "ryeo", "xyo">>>>,  \* 안내드립니다 | 알려드려요
                  <<<<"deu", "ri", "gess", "seub", "ni", "da">>, <<"deu", "ril", "ge", "xyo">>>> >>),  \* 드리겠습니다 | 드릴게요
             haeEndings)
      [] toneId = "firm" ->
           rxReplaceEach(
             replaceEach(text,
               << <<<<"gwaen", "chanh", "xeu", "si", "myeon">>, <<>>>>,  \* 괜찮으시면
                  <<<<"ga", "neung", "ha", "si", "myeon">>, <<>>>>,  \* 가능하시면
                  <<<<"bu", "tag", "deu", "rib", "ni", "da">>, <<"hae", " ", "ju", "se", "xyo">>>>,  \* 부탁드립니다 | 해 주세요
                  <<<<"xyo", "cheong", "deu", "rib", "ni", "da">>, <<"hae", " ", "ju", "se", "xyo">>>> >>),  \* 요청드립니다 | 해 주세요
             haeEndings)
      [] toneId = "warm" ->
           rxReplaceEach(
             replaceEach(text,
               << <<<<"xyo", "cheong", "deu", "rib", "ni", "da">>, <<"hae", " ", "ju", "si", "myeon", " ", "gam", "sa", "ha", "gess", "seub", "ni", "da">>>>,  \* 요청드립니다 | 해 주시면 감사하겠습니다
                  <<<<"bu", "tag", "deu", "rib", "ni", "da">>, <<"bu", "tag", "deu", "ryeo", "xyo">>>> >>),  \* 부탁드립니다 | 부탁드려요
             haeEndings)
      [] toneId = "apology" ->
           rxReplaceEach(
             IF ~includes(text, <<"joe", "song">>) /\ ~includes(text, <<"sa", "gwa">>)  \* 죄송 | 사과
             THEN <<"bul", "pyeon", "xeul", " ", "deu", "ryeo", " ", "joe", "song", "hab", "ni", "da", ".", " ">> \o text  \* 불편을 드려 죄송합니다. 
             ELSE text,
             haeEndings)
      [] toneId = "humorous" ->
           rxReplaceEach(
             replaceEach(
               IF ~includes(text, <<"bu", "tag">>) /\ ~includes(text, <<"xyo", "cheong">>)  \* 부탁 | 요청
               THEN <<"bu", "tag", " ", "ha", "na", " ", "deu", "ryeo", "do", " ", "doel", "kka", "xyo", "?", " ">> \o text  \* 부탁 하나 드려도 될까요? 
               ELSE text,
               << <<<<"bu", "tag", "deu", "rib", "ni", "da">>, <<"bu", "tag", "deu", "ryeo", "xyo">>>>,  \* 부탁드립니다 | 부탁드려요
                  <<<<"xyo", "cheong", "deu", "rib", "ni", "da">>, <<"xyo", "cheong", "hae", "xyo">>>> >>),  \* 요청드립니다 | 요청해요
             haeEndings)
      [] toneId \in {"warning", "protest"} ->
           rxReplaceEach(text,
             << <<BareHae, <<"hae", " ", "ju", "se", "xyo">>>>,  \* 해 주세요
                <<Word(<<"hae", "bwa">>), <<"hae", " ", "ju", "se", "xyo">>>>,  \* 해봐 | 해 주세요
                <<Word(<<"hae", "jwo">>), <<"hae", " ", "ju", "se", "xyo">>>>,  \* 해줘 | 해 주세요
                <<BareSseo, <<"sseo", " ", "ju", "se", "xyo">>>>,  \* 써 주세요
                <<Word(<<"sseo", "jwo">>), <<"sseo", " ", "ju", "se", "xyo">>>>,  \* 써줘 | 써 주세요
                <<Word(<<"ha", "ji", "ma">>), <<"ha", "ji", " ", "mal", "xa", " ", "ju", "se", "xyo">>>>,  \* 하지마 | 하지 말아 주세요
                <<Word(<<"ha", "ji", " ", "ma">>), <<"ha", "ji", " ", "mal", "xa", " ", "ju", "se", "xyo">>>> >>)  \* 하지 마 | 하지 말아 주세요
      [] OTHER -> text

forbiddenAlt ==
    AltLit(<<<<"sseo", " ", "jwo">>, <<"hae", " ", "jwo">>, <<"hae", "jwo">>, <<"jom", " ", "hae">>, <<"jom", " ", "sseo">>, <<"hae", "jul", "rae">>, <<"hae", "bwa">>, <<"hae", "ra">>,  \* 써 줘 | 해 줘 | 해줘 | 좀 해 | 좀 써 | 해줄래 | 해봐 | 해라
             <<"sseo", "ra">>, <<"ha", "ji", "ma">>, <<"ha", "ji", " ", "ma">>>>)  \* 써라 | 하지마 | 하지 마
forbiddenPatterns ==
    <<<<"sseo", " ", "jwo">>, <<"hae", " ", "jwo">>, <<"hae", "jwo">>, <<"jom", " ", "hae">>, <<"jom", " ", "sseo">>, <<"hae", "jul", "rae">>, <<"hae", "bwa">>, <<"hae", "ra">>, <<"sseo", "ra">>,  \* 써 줘 | 해 줘 | 해줘 | 좀 해 | 좀 써 | 해줄래 | 해봐 | 해라 | 써라
      <<"ha", "ji", "ma">>, <<"ha", "ji", " ", "ma">>>>  \* 하지마 | 하지 마

RECURSIVE forbiddenLoop(_, _, _)
forbiddenLoop(result, toneId, k) ==
    IF k > Len(forbiddenPatterns) THEN result
    ELSE IF includes(result, forbiddenPatterns[k])
         THEN forbiddenLoop(
                 replace(result, forbiddenAlt,
                         IF toneId \in {"notice-formal", "cultured"}
                         THEN <<"bu", "tag", "deu", "rib", "ni", "da">> ELSE <<"hae", " ", "ju", "se", "xyo">>),  \* 부탁드립니다 | 해 주세요
                 toneId, k + 1)
         ELSE forbiddenLoop(result, toneId, k + 1)

validateAndFixStyleConsistency(text, toneId, variantType) ==
    LET hasCasual(s) ==
            \E w \in {<<"hae", " ", "ju", "se", "xyo">>, <<"hae", "jwo", "xyo">>, <<"hae", "jul", "rae", "xyo">>, <<"sseo", " ", "ju", "se", "xyo">>} : includes(s, w)  \* 해 주세요 | 해줘요 | 해줄래요 | 써 주세요
        hasFormal(s) ==
            \E w \in {<<"bu", "tag", "deu", "rib", "ni", "da">>, <<"xyo", "cheong", "deu", "rib", "ni", "da">>, <<"xan", "nae", "deu", "rib", "ni", "da">>, <<"deu", "ri", "gess", "seub", "ni", "da">>} :  \* 부탁드립니다 | 요청드립니다 | 안내드립니다 | 드리겠습니다
               includes(s, w)
        unified(s) ==
            IF hasCasual(s) /\ hasFormal(s)
            THEN IF toneId \in {"notice-formal", "cultured"}
                 THEN replaceEach(s,
                        << <<<<"hae", " ", "ju", "se", "xyo">>, <<"bu", "tag", "deu", "rib", "ni", "da">>>>,  \* 해 주세요 | 부탁드립니다
                           <<<<"hae", "jwo", "xyo">>, <<"bu", "tag", "deu", "rib", "ni", "da">>>>,  \* 해줘요 | 부탁드립니다
                           <<<<"hae", "jul", "rae", "xyo">>, <<"bu", "tag", "deu", "rib", "ni", "da">>>>,  \* 해줄래요 | 부탁드립니다
                           <<<<"sseo", " ", "ju", "se", "xyo">>, <<"jag", "seong", " ", "bu", "tag", "deu", "rib", "ni", "da">>>> >>)  \* 써 주세요 | 작성 부탁드립니다
                 ELSE IF toneId \in {"friendly", "humorous"}
                 THEN replaceEach(s,
                        << <<<<"bu", "tag", "deu", "rib", "ni", "da">>, <<"bu", "tag", "deu", "ryeo", "xyo">>>>,  \* 부탁드립니다 | 부탁드려요
                           <<<<"xyo", "cheong", "deu", "rib", "ni", "da">>, <<"xyo", "cheong", "hae", "xyo">>>>,  \* 요청드립니다 | 요청해요
                           <<<<"xan", "nae", "deu", "rib", "ni", "da">>, <<"xal", "ryeo", "deu", "ryeo", "xyo">>>>,  \* 안내드립니다 | 알려드려요
                           <<<<"deu", "ri", "gess", "seub", "ni", "da">>, <<"deu", "ril", "ge", "xyo">>>> >>)  \* 드리겠습니다 | 드릴게요
                 ELSE replaceEach(s,
                        << <<<<"hae", " ", "ju", "se", "xyo">>, <<"bu", "tag", "deu", "rib", "ni", "da">>>>,  \* 해 주세요 | 부탁드립니다
                           <<<<"hae", "jwo", "xyo">>, <<"bu", "tag", "deu", "rib", "ni", "da">>>> >>)  \* 해줘요 | 부탁드립니다
            ELSE s
        noCushion(s) ==
            IF toneId \in {"notice-formal", "cultured"} /\ includes(s, <<"gwaen", "chanh", "xeu", "si", "myeon">>)  \* 괜찮으시면
            THEN replace(s, Lit(<<"gwaen", "chanh", "xeu", "si", "myeon">>) \o <<Star("space")>>, <<>>)  \* 괜찮으시면
            ELSE s
        noFollowUp(s) ==
            trim(collapseSpaces(replaceEach(s,
                << <<<<"gwan", "ryeon", " ", "sa", "hang", "xe", " ", "dae", "hae", " ", "chu", "ga", "ro", " ", "xan", "nae", "deu", "ri", "gess", "seub", "ni", "da", ".">>, <<>>>>,  \* 관련 사항에 대해 추가로 안내드리겠습니다.
                   <<<<"chu", "ga", " ", "xan", "nae", "deu", "ri", "gess", "seub", "ni", "da", ".">>, <<>>>>,  \* 추가 안내드리겠습니다.
                   <<<<"sang", "se", "han", " ", "nae", "xyong", "xeun", " ", "chu", "hu", " ", "xan", "nae", "deu", "ri", "gess", "seub", "ni", "da", ".">>, <<>>>>,  \* 상세한 내용은 추후 안내드리겠습니다.
                   <<<<"chu", "hu", " ", "xan", "nae", "deu", "ri", "gess", "seub", "ni", "da", ".">>, <<>>>> >>)))  \* 추후 안내드리겠습니다.
    IN  applyToneEnding(noFollowUp(noCushion(unified(forbiddenLoop(text, toneId, 1)))),
                        toneId, variantType)
\* the gloss of one English sentence in the PAREN and TWOLINES modes
glossOf(engSentence) ==
    LET orDefault(korean) ==
            IF Len(korean) = 0 \/ noHangulLeft(korean) THEN <<"xui", "mi", "reul", " ", "jeon", "dal", "hab", "ni", "da">> ELSE korean  \* 의미를 전달합니다
    IN  orDefault(trim(replace(
               rxReplaceEach(engSentence,
                 << <<LitI(<<"w", "e", " ", "d", "e", "c", "i", "d", "e", "d", " ", "t", "o">>), <<"xyeo", "haeng", "xeul", " ", "ga", "gi", "ro", " ", "gyeol", "jeong", "haess", "seub", "ni", "da">>>>,  \* 여행을 가기로 결정했습니다
                    <<LitI(<<"d", "e", "c", "i", "d", "e", "d", " ", "t", "o">>), <<"gyeol", "jeong", "haess", "seub", "ni", "da">>>>,  \* 결정했습니다
                    <<LitI(<<"t", "a", "k", "e", " ", "a", " ", "t", "r", "i", "p">>), <<"xyeo", "haeng", "xeul", " ", "ga", "gi", "ro">>>>,  \* 여행을 가기로
                    <<LitI(<<"t", "r", "i", "p">>), <<"xyeo", "haeng">>>>,  \* 여행
                    <<LitI(<<"w", "e">>), <<"xu", "ri", "neun">>>>,  \* 우리는
                    <<LitI(<<"d", "e", "c", "i", "d", "e", "d">>), <<"gyeol", "jeong", "haess", "seub", "ni", "da">>>>,  \* 결정했습니다
                    <<LitI(<<"t", "o">>), <<>>>>,
                    <<LitI(<<"a">>), <<>>>>,
                    <<LitI(<<"t", "h", "e">>), <<>>>> >>),
               <<Cls("latin")>>, <<>>)))

\* result.replace(/\b[A-Za-z]+\b/g, m => preserved.includes(m.toUpperCase()) ? m : '')
preservedAcronyms == {<<"A", "P", "I">>, <<"U", "R", "L">>, <<"P", "D", "F">>, <<"P", "P", "T">>, <<"H", "T", "M", "L">>, <<"C", "S", "S">>, <<"J", "S">>, <<"A", "I">>, <<"I", "T">>}
RECURSIVE dropEnglishWords(_, _)
dropEnglishWords(s, pos) ==
    LET kept(match) == IF toUpperCase(match) \in preservedAcronyms THEN match ELSE <<>>
        cut(m) ==
            IF m[1] = 0 THEN SubSeq(s, pos, Len(s))
            ELSE SubSeq(s, pos, m[1] - 1) \o kept(SubSeq(s, m[1], m[2] - 1))
                   \o dropEnglishWords(s, m[2])
    IN  cut(RxFind(s, englishWord, pos))

englishPatterns ==
    << <<LitI(<<"f", "i", "n", "i", "s", "h">>) \o <<Plus("space")>> \o Lit(<<"hae">>), <<"ma", "mu", "ri", "hae">>>>,  \* 해 | 마무리해
       <<LitI(<<"f", "i", "n", "i", "s", "h">>) \o <<Plus("space")>> \o LitI(<<"t", "h", "i", "s">>), <<"xi", "geos", "xeul", " ", "ma", "mu", "ri">>>>,  \* 이것을 마무리
       <<LitI(<<"p", "l", "e", "a", "s", "e">>) \o <<Plus("space")>> \o LitI(<<"f", "i", "n", "i", "s", "h">>), <<"ma", "mu", "ri", "hae", " ", "ju", "se", "xyo">>>>,  \* 마무리해 주세요
       <<LitI(<<"p", "l", "e", "a", "s", "e">>) \o <<Plus("space")>> \o LitI(<<"f", "i", "n", "i", "s", "h">>) \o <<Plus("space")>>
           \o LitI(<<"t", "h", "i", "s">>), <<"xi", "geos", "xeul", " ", "ma", "mu", "ri", "hae", " ", "ju", "se", "xyo">>>>,  \* 이것을 마무리해 주세요
       <<LitI(<<"f", "i", "n", "i", "s", "h">>), <<"ma", "mu", "ri">>>>,  \* 마무리
       <<LitI(<<"w", "e", " ", "d", "e", "c", "i", "d", "e", "d", " ", "t", "o", " ", "t", "a", "k", "e", " ", "a", " ", "t", "r", "i", "p">>), <<"xyeo", "haeng", "xeul", " ", "ga", "gi", "ro", " ", "gyeol", "jeong", "haess", "seub", "ni", "da">>>>,  \* 여행을 가기로 결정했습니다
       <<LitI(<<"d", "e", "c", "i", "d", "e", "d", " ", "t", "o", " ", "t", "a", "k", "e", " ", "a", " ", "t", "r", "i", "p">>), <<"xyeo", "haeng", "xeul", " ", "ga", "gi", "ro", " ", "gyeol", "jeong", "haess", "seub", "ni", "da">>>>,  \* 여행을 가기로 결정했습니다
       <<LitI(<<"t", "a", "k", "e", " ", "a", " ", "t", "r", "i", "p">>), <<"xyeo", "haeng", "xeul", " ", "ga", "gi", "ro">>>>,  \* 여행을 가기로
       <<LitI(<<"w", "e", " ", "d", "e", "c", "i", "d", "e", "d">>), <<"gyeol", "jeong", "haess", "seub", "ni", "da">>>>,  \* 결정했습니다
       <<LitI(<<"d", "e", "c", "i", "d", "e", "d">>), <<"gyeol", "jeong", "haess", "seub", "ni", "da">>>>,  \* 결정했습니다
       <<LitI(<<"t", "r", "i", "p">>), <<"xyeo", "haeng">>>>,  \* 여행
       <<LitI(<<"w", "e">>), <<"xu", "ri", "neun">>>>,  \* 우리는
       <<LitI(<<"W", "h", "y", " ", "a", "r", "e", " ", "y", "o", "u", " ", "s", "m", "i", "l", "i", "n", "g", "?">>), <<"xwae", " ", "xus", "go", " ", "gye", "sin", "ga", "xyo">>>>,  \* 왜 웃고 계신가요
       <<LitI(<<"W", "h", "y", " ", "a", "r", "e", " ", "y", "o", "u", " ", "d", "o", "i", "n", "g", " ", "t", "h", "i", "s", "?">>), <<"xwae", " ", "xi", "reoh", "ge", " ", "ha", "si", "neun", " ", "geon", "ga", "xyo">>>>,  \* 왜 이렇게 하시는 건가요
       <<LitI(<<"W", "h", "a", "t", " ", "a", "r", "e", " ", "y", "o", "u", " ", "d", "o", "i", "n", "g", " ", "t", "h", "e", "s", "e", " ", "d", "a", "y", "s", "?">>), <<"xyo", "jeum", " ", "xeo", "tteoh", "ge", " ", "ji", "nae", "se", "xyo">>>>,  \* 요즘 어떻게 지내세요
       <<LitI(<<"W", "h", "a", "t", " ", "a", "r", "e", " ", "y", "o", "u", " ", "d", "o", "i", "n", "g", "?">>), <<"mu", "xeos", "xeul", " ", "ha", "go", " ", "gye", "se", "xyo">>>>,  \* 무엇을 하고 계세요
       <<LitI(<<"H", "o", "w", " ", "a", "r", "e", " ", "y", "o", "u", "?">>), <<"xeo", "tteoh", "ge", " ", "ji", "nae", "se", "xyo">>>>,  \* 어떻게 지내세요
       <<LitI(<<"H", "o", "w", " ", "i", "s", " ", "i", "t", " ", "g", "o", "i", "n", "g", "?">>), <<"xeo", "tteoh", "ge", " ", "ji", "nae", "se", "xyo">>>>,  \* 어떻게 지내세요
       <<LitI(<<"C", "a", "n", " ", "y", "o", "u", " ", "h", "e", "l", "p", " ", "m", "e", "?">>), <<"do", "xwa", "ju", "sil", " ", "su", " ", "xiss", "xeul", "kka", "xyo">>>>,  \* 도와주실 수 있을까요
       <<LitI(<<"C", "o", "u", "l", "d", " ", "y", "o", "u", " ", "h", "e", "l", "p", " ", "m", "e", "?">>), <<"do", "xwa", "ju", "sil", " ", "su", " ", "xiss", "xeul", "kka", "xyo">>>>,  \* 도와주실 수 있을까요
       <<LitI(<<"P", "l", "e", "a", "s", "e", " ", "h", "e", "l", "p", " ", "m", "e">>), <<"do", "xwa", "ju", "se", "xyo">>>>,  \* 도와주세요
       <<LitI(<<"T", "h", "a", "n", "k", " ", "y", "o", "u">>), <<"gam", "sa", "hab", "ni", "da">>>>,  \* 감사합니다
       <<LitI(<<"T", "h", "a", "n", "k", "s">>), <<"go", "mab", "seub", "ni", "da">>>>,  \* 고맙습니다
       <<LitI(<<"W", "h", "y">>), <<"xwae">>>>,  \* 왜
       <<LitI(<<"W", "h", "a", "t">>), <<"mu", "xeos", "xeul">>>>,  \* 무엇을
       <<LitI(<<"H", "o", "w">>), <<"xeo", "tteoh", "ge">>>>,  \* 어떻게
       <<LitI(<<"C", "a", "n", " ", "y", "o", "u">>), <<"hal", " ", "su", " ", "xiss", "xeul", "kka", "xyo">>>>,  \* 할 수 있을까요
       <<LitI(<<"C", "o", "u", "l", "d", " ", "y", "o", "u">>), <<"hal", " ", "su", " ", "xiss", "xeul", "kka", "xyo">>>>,  \* 할 수 있을까요
       <<LitI(<<"P", "l", "e", "a", "s", "e">>), <<"bu", "tag", "deu", "rib", "ni", "da">>>>,  \* 부탁드립니다
       <<LitI(<<"s", "m", "i", "l", "i", "n", "g">>), <<"xus", "go", " ", "gye", "sin">>>>,  \* 웃고 계신
       <<LitI(<<"d", "o", "i", "n", "g">>), <<"ha", "go", " ", "gye", "sin">>>>,  \* 하고 계신
       <<LitI(<<"t", "h", "i", "s">>), <<"xi", "geos">>>>,  \* 이것
       <<LitI(<<"t", "h", "a", "t">>), <<"geu", "geos">>>> >>  \* 그것

convertEnglishToKorean(text, englishHelperMode, originalText) ==
    LET sentencesOr(bySentence) ==
            IF bySentence # <<>> THEN bySentence ELSE matchAll(text, englishRuns)
        glosses(englishSentences) ==
            [i \in 1..Len(englishSentences) |-> glossOf(englishSentences[i])]
        helped(koreanTranslations) ==
            IF Len(koreanTranslations) > 0
            THEN IF englishHelperMode = "paren"
                 THEN text \o <<" ", "(">> \o join(koreanTranslations, <<",", " ">>) \o <<")">>
                 ELSE IF englishHelperMode = "twoLines"
                 THEN text \o <<"NL">> \o join(koreanTranslations, <<"NL">>)
                 ELSE text
            ELSE text
        orDefault(r) ==
            IF Len(trim(r)) = 0 \/ noHangulLeft(r) THEN <<"xui", "mi", "reul", " ", "jeon", "dal", "hab", "ni", "da">> ELSE r  \* 의미를 전달합니다
    IN  IF ~hasEnglish(text) THEN text
        ELSE IF englishHelperMode # "off"
        THEN helped(glosses(sentencesOr(
                 matchAll(text, <<Cls("upper"), NotStar({".", "!", "?"}),
                                  One({".", "!", "?"})>>))))
        ELSE IF 10 * Len(matchAll(text, englishWord)) > 3 * Len(splitWords(text))
        THEN orDefault(trim(collapseSpaces(
                 dropEnglishWords(rxReplaceEach(text, englishPatterns), 1))))
        ELSE text

validateEnglishHelperMode(text, englishHelperMode, originalText) ==
    IF englishHelperMode # "off"
    THEN validateEnglishHelperModeOn(text, englishHelperMode, originalText)
    ELSE IF hasEnglish(text)
    THEN convertEnglishToKorean(text, "off", originalText)
    ELSE text

\* /x(?!.*y)/g
Unless(x, y) == Lit(x) \o <<Nla(<<Star("dot")>> \o Lit(y))>>

softReplacements ==
    << <<Unless(<<"hae", " ", "ju", "se", "xyo">>, <<"su", " ", "xiss", "xeul", "kka", "xyo">>), <<"hae", " ", "ju", "sil", " ", "su", " ", "xiss", "xeul", "kka", "xyo">>>>,  \* 해 주세요 | 수 있을까요 | 해 주실 수 있을까요
       <<Unless(<<"hae", "ju", "se", "xyo">>, <<"su", " ", "xiss", "xeul", "kka", "xyo">>), <<"hae", " ", "ju", "sil", " ", "su", " ", "xiss", "xeul", "kka", "xyo">>>>,  \* 해주세요 | 수 있을까요 | 해 주실 수 있을까요
       <<Unless(<<"xyo", "cheong", "hae", "xyo">>, <<"su", " ", "xiss", "xeul", "kka", "xyo">>), <<"xyo", "cheong", "hae", " ", "ju", "sil", " ", "su", " ", "xiss", "xeul", "kka", "xyo">>>>,  \* 요청해요 | 수 있을까요 | 요청해 주실 수 있을까요
       <<Unless(<<"xyo", "cheong", "deu", "rib", "ni", "da">>, <<"su", " ", "xiss", "xeul", "kka", "xyo">>), <<"xyo", "cheong", "hae", " ", "ju", "sil", " ", "su", " ", "xiss", "xeul", "kka", "xyo">>>>,  \* 요청드립니다 | 수 있을까요 | 요청해 주실 수 있을까요
       <<Unless(<<"bu", "tag", "hae", "xyo">>, <<"doel", "kka", "xyo">>), <<"bu", "tag", "deu", "ryeo", "do", " ", "doel", "kka", "xyo">>>>,  \* 부탁해요 | 될까요 | 부탁드려도 될까요
       <<Unless(<<"bu", "tag", "deu", "rib", "ni", "da">>, <<"doel", "kka", "xyo">>), <<"bu", "tag", "deu", "ryeo", "do", " ", "doel", "kka", "xyo">>>>,  \* 부탁드립니다 | 될까요 | 부탁드려도 될까요
       <<Unless(<<"hae", " ", "ju", "si", "gi", " ", "ba", "rab", "ni", "da">>, <<"su", " ", "xiss", "xeul", "kka", "xyo">>), <<"hae", " ", "ju", "sil", " ", "su", " ", "xiss", "xeul", "kka", "xyo">>>>,  \* 해 주시기 바랍니다 | 수 있을까요 | 해 주실 수 있을까요
       <<Unless(<<"hae", "ju", "si", "gi", " ", "ba", "rab", "ni", "da">>, <<"su", " ", "xiss", "xeul", "kka", "xyo">>), <<"hae", " ", "ju", "sil", " ", "su", " ", "xiss", "xeul", "kka", "xyo">>>> >>  \* 해주시기 바랍니다 | 수 있을까요 | 해 주실 수 있을까요

RECURSIVE softLoop(_, _)
softLoop(result, k) ==
    IF k > Len(softReplacements) THEN result
    ELSE softLoop(IF ~includes(result, <<"su", " ", "xiss", "xeul", "kka", "xyo">>) /\ ~includes(result, <<"doel", "kka", "xyo">>)  \* 수 있을까요 | 될까요
                  THEN replace(result, softReplacements[k][1], softReplacements[k][2])
                  ELSE result,
                  k + 1)

\* the mutation of applySoftRequestRule: the softener is put in front without a look at
\* the text
applySoftRequestRuleAgain(text, variantType, softToFirm) ==
    <<"gwaen", "chanh", "xeu", "si", "myeon", " ">> \o text  \* 괜찮으시면 

applySoftRequestRule(text, variantType, softToFirm) ==
    LET hasRequestContext ==
            \E w \in {<<"bu", "tag">>, <<"xyo", "cheong">>, <<"hae", " ", "ju">>, <<"hae", "ju">>, <<"ju", "se", "xyo">>, <<"ju", "si">>} : includes(text, w)  \* 부탁 | 요청 | 해 주 | 해주 | 주세요 | 주시
        softest(r) ==
            IF softToFirm < 50 /\ ~includes(r, <<"pyeon", "ha", "sil", " ", "ttae">>) /\ ~includes(r, <<"gwaen", "chanh", "xeu", "si", "myeon">>)  \* 편하실 때 | 괜찮으시면
            THEN replaceEach(r,
                   << <<<<"hae", " ", "ju", "sil", " ", "su", " ", "xiss", "xeul", "kka", "xyo">>, <<"pyeon", "ha", "sil", " ", "ttae", " ", "hae", " ", "ju", "sil", " ", "su", " ", "xiss", "xeul", "kka", "xyo">>>>,  \* 해 주실 수 있을까요 | 편하실 때 해 주실 수 있을까요
                      <<<<"bu", "tag", "deu", "ryeo", "do", " ", "doel", "kka", "xyo">>, <<"gwaen", "chanh", "xeu", "si", "myeon", " ", "bu", "tag", "deu", "ryeo", "do", " ", "doel", "kka", "xyo">>>> >>)  \* 부탁드려도 될까요 | 괜찮으시면 부탁드려도 될까요
            ELSE r
    IN  softest(softLoop(
            IF variantType = "short" /\ hasRequestContext
               /\ ~includes(text, <<"gwaen", "chanh", "xeu", "si", "myeon">>) /\ ~includes(text, <<"ga", "neung", "ha", "si", "myeon">>)  \* 괜찮으시면 | 가능하시면
               /\ ~includes(text, <<"pyeon", "ha", "sil", " ", "ttae">>)  \* 편하실 때
               /\ ~startsWith(text, <<"gwaen", "chanh", "xeu", "si", "myeon">>) /\ ~startsWith(text, <<"ga", "neung", "ha", "si", "myeon">>)  \* 괜찮으시면 | 가능하시면
               /\ ~startsWith(text, <<"pyeon", "ha", "sil", " ", "ttae">>)  \* 편하실 때
            THEN <<"gwaen", "chanh", "xeu", "si", "myeon", " ">> \o text  \* 괜찮으시면 
            ELSE text, 1))

\* /\b[A-Za-z]+(?:\s+[A-Za-z]+)*\b/g
englishSpan == <<Wb, Plus("latin"), StarGrp(<<Plus("space"), Plus("latin")>>), Wb>>

applyLanguagePolicy(text, language, englishHelperMode, originalText) ==
    LET dedupe(cleaned, englishWords, dups) ==
            IF englishHelperMode = "paren"
            THEN IF dups # <<>> THEN trim(collapseSpaces(dedupeWords(cleaned, dups)))
                 ELSE cleaned
            ELSE IF Len(englishWords) > 0
                 THEN trim(collapseSpaces(dedupeWords(cleaned, dups)))
                 ELSE cleaned
        dedupeOf(cleaned, englishWords) ==
            dedupe(cleaned, englishWords, duplicatedWords(englishWords, 1, {}))
        deduped(cleaned) == dedupeOf(cleaned, matchAll(cleaned, englishWord))
        layout(cleaned, koreanPart, englishPart, englishParts, englishStr) ==
            IF englishHelperMode = "paren"
            THEN IF hasEnglish(cleaned) /\ hasHangul(cleaned)
                    /\ koreanPart # <<>> /\ englishPart # <<>>
                    /\ ~includes(cleaned, <<"(">> \o englishPart \o <<")">>)
                    /\ ~test(cleaned, parenWithEnglish)
                 THEN koreanPart \o <<" ", "(">> \o englishPart \o <<")">>
                 ELSE IF hasEnglish(cleaned) /\ originalText # <<>> /\ ~hasHangul(cleaned)
                         /\ englishParts # <<>>
                         /\ ~includes(cleaned, <<"(">> \o englishStr \o <<")">>)
                 THEN cleaned \o <<" ", "(">> \o englishStr \o <<")">>
                 ELSE cleaned
            ELSE IF hasEnglish(cleaned) /\ hasHangul(cleaned)
                    /\ koreanPart # <<>> /\ englishPart # <<>>
                    /\ ~includes(cleaned, <<"NL">> \o englishPart)
                    /\ ~endsWith(cleaned, englishPart)
                 THEN koreanPart \o <<"NL">> \o englishPart
                 ELSE IF hasEnglish(cleaned) /\ originalText # <<>> /\ ~hasHangul(cleaned)
                         /\ englishParts # <<>>
                         /\ ~includes(cleaned, <<"NL">> \o englishStr)
                         /\ ~endsWith(cleaned, englishStr)
                 THEN cleaned \o <<"NL">> \o englishStr
                 ELSE cleaned
        layoutOf(cleaned, englishParts) ==
            layout(cleaned,
                   trim(collapseSpaces(replace(cleaned, englishWord, <<>>))),
                   join(matchAll(cleaned, englishSpan), <<" ">>),
                   englishParts,
                   join(englishParts, <<" ">>))
    IN  IF language # "ko" THEN text
        ELSE IF englishHelperMode = "off"
        THEN trim(collapseSpaces(
                IF hasEnglish(text) THEN convertEnglishToKorean(text, "off", originalText)
                ELSE text))
        ELSE IF englishHelperMode \in {"paren", "twoLines"}
        THEN layoutOf(deduped(trim(removeEach(text, <<<<"xui", "mi", "reul", " ", "jeon", "dal", "hab", "ni", "da">>, <<"beon", "xyeog", "hab", "ni", "da">>>>, 1))),  \* 의미를 전달합니다 | 번역합니다
                      matchAll(originalText, englishRuns))
        ELSE text

applyFormatOption(text, format) ==
    IF format = "message"
    THEN replaceEach(text,
           << <<<<"bu", "tag", "deu", "rib", "ni", "da">>, <<"bu", "tag", "hae", "xyo">>>>,  \* 부탁드립니다 | 부탁해요
              <<<<"xyo", "cheong", "deu", "rib", "ni", "da">>, <<"xyo", "cheong", "hae", "xyo">>>>,  \* 요청드립니다 | 요청해요
              <<<<"xan", "nae", "deu", "rib", "ni", "da">>, <<"xal", "ryeo", "deu", "ryeo", "xyo">>>>,  \* 안내드립니다 | 알려드려요
              <<<<"gam", "sa", "deu", "rib", "ni", "da">>, <<"gam", "sa", "hae", "xyo">>>>,  \* 감사드립니다 | 감사해요
              <<<<"ha", "si", "gi", " ", "ba", "rab", "ni", "da">>, <<"hae", "ju", "se", "xyo">>>> >>)  \* 하시기 바랍니다 | 해주세요
    ELSE replaceEach(text,
           << <<<<"bu", "tag", "hae", "xyo">>, <<"bu", "tag", "deu", "rib", "ni", "da">>>>,  \* 부탁해요 | 부탁드립니다
              <<<<"xyo", "cheong", "hae", "xyo">>, <<"xyo", "cheong", "deu", "rib", "ni", "da">>>>,  \* 요청해요 | 요청드립니다
              <<<<"xal", "ryeo", "deu", "ryeo", "xyo">>, <<"xan", "nae", "deu", "rib", "ni", "da">>>>,  \* 알려드려요 | 안내드립니다
              <<<<"gam", "sa", "hae", "xyo">>, <<"gam", "sa", "deu", "rib", "ni", "da">>>>,  \* 감사해요 | 감사드립니다
              <<<<"hae", "ju", "se", "xyo">>, <<"hae", "ju", "si", "gi", " ", "ba", "rab", "ni", "da">>>> >>)  \* 해주세요 | 해주시기 바랍니다

\* templates.request
requestTemplate(text) ==
    LET closed(t) ==
            IF includes(t, <<"bu", "tag">>) \/ includes(t, <<"xyo", "cheong">>) THEN t  \* 부탁 | 요청
            ELSE IF endsWith(t, <<"ju", "se", "xyo">>) \/ endsWith(t, <<"ju", "si", "gi", " ", "ba", "rab", "ni", "da">>) THEN t  \* 주세요 | 주시기 바랍니다
            ELSE IF Len(trim(t)) > 0 THEN t \o <<" ", "bu", "tag", "deu", "rib", "ni", "da", ".">>  \*  부탁드립니다.
            ELSE t
    IN  closed(replaceEach(
               rxReplaceEach(text,
                 << <<Lit(<<"hang", "xui", "deu", "rib", "ni", "da">>) \o <<Opt({"."}), Star("space")>>, <<>>>>,  \* 항의드립니다
                    <<Lit(<<"dan", "ho", "hi", " ", "hang", "xui", "deu", "rib", "ni", "da">>) \o <<Opt({"."}), Star("space")>>, <<>>>>,  \* 단호히 항의드립니다
                    <<Lit(<<"gyeong", "go", "deu", "rib", "ni", "da">>) \o <<Opt({"."}), Star("space")>>, <<>>>> >>),  \* 경고드립니다
               << <<<<"si", "jeong", "xyo", "gu">>, <<"xyo", "cheong">>>>,  \* 시정요구 | 요청
                  <<<<"jo", "chi", "reul", " ", "chwi", "ha", "gess", "seub", "ni", "da">>, <<"cheo", "ri", "ha", "gess", "seub", "ni", "da">>>> >>))  \* 조치를 취하겠습니다 | 처리하겠습니다

\* the mutation of applyPurposeTemplate: the closing phrase of the request is added to
\* whatever the text is
applyPurposeTemplateAlways(text, purposeId, autoIncludeDetails, originalText) ==
    text \o <<" ", "bu", "tag", "deu", "rib", "ni", "da", ".">>  \*  부탁드립니다.

applyPurposeTemplate(text, purposeId, autoIncludeDetails, originalText) ==
    LET hasWarning(trimmedText) == \E w \in {<<"gyeong", "go">>, <<"si", "jeong">>, <<"hang", "xui">>} : includes(trimmedText, w)  \* 경고 | 시정 | 항의
        hasNotice(trimmedText)  == \E w \in {<<"gong", "ji">>, <<"xan", "nae">>} : includes(trimmedText, w)  \* 공지 | 안내
        hasApology(trimmedText) == \E w \in {<<"sa", "gwa">>, <<"joe", "song">>} : includes(trimmedText, w)  \* 사과 | 죄송
        templated(trimmedText) ==
            CASE purposeId = "request" -> requestTemplate(text)
              [] purposeId = "notice-guide" ->
                   IF hasWarning(trimmedText) /\ ~hasNotice(trimmedText) THEN text
                   ELSE IF includes(text, <<"[", "gong", "ji", "]">>) THEN text  \* [공지]
                   ELSE IF Len(trim(text)) > 0 THEN <<"[", "gong", "ji", "]", " ">> \o text  \* [공지] 
                   ELSE text
              [] purposeId = "apology" ->
                   IF hasApology(trimmedText) THEN text
                   ELSE IF includes(text, <<"joe", "song">>) \/ includes(text, <<"sa", "gwa">>) THEN text  \* 죄송 | 사과
                   ELSE IF Len(trim(text)) > 0 THEN <<"joe", "song", "hab", "ni", "da", ".", " ">> \o text  \* 죄송합니다. 
                   ELSE text
              [] purposeId = "review-thanks" ->
                   IF includes(text, <<"hu", "gi">>) \/ includes(text, <<"gam", "sa">>) THEN text  \* 후기 | 감사
                   ELSE IF Len(trim(text)) > 0 THEN text \o <<"xe", " ", "dae", "han", " ", "hu", "gi", "xib", "ni", "da", ".">>  \* 에 대한 후기입니다.
                   ELSE text
              [] purposeId = "complaint-correction" ->
                   IF hasNotice(trimmedText) /\ ~hasWarning(trimmedText) THEN text
                   ELSE IF includes(text, <<"hang", "xui">>) \/ includes(text, <<"bul", "man">>) THEN text  \* 항의 | 불만
                   ELSE IF Len(trim(text)) > 0 THEN text \o <<"xe", " ", "dae", "hae", " ", "hang", "xui", "deu", "rib", "ni", "da", ".">>  \* 에 대해 항의드립니다.
                   ELSE text
              [] OTHER -> <<>>
        \* templates[purposeId]?.(text) || text
        orText(r) == IF r = <<>> THEN text ELSE r
        apply(trimmedText) ==
            IF Len(trimmedText) = 0 \/ trimmedText = <<"?">> \/ trimmedText = <<".">> THEN text
            ELSE IF includes(text, <<"[", "gong", "ji", "]">>) \/ includes(text, <<"gong", "ji">>) THEN text  \* [공지] | 공지
            ELSE orText(templated(trimmedText))
    IN  apply(trim(text))

\* /^(상사님|선생님|학부모님|고객님|거래처 담당자분께?)[:,\s]*/g
relationshipLabel ==
    <<Bol, Alt(<<Lit(<<"sang", "sa", "nim">>), Lit(<<"seon", "saeng", "nim">>), Lit(<<"hag", "bu", "mo", "nim">>), Lit(<<"go", "gaeg", "nim">>),  \* 상사님 | 선생님 | 학부모님 | 고객님
                 Lit(<<"geo", "rae", "cheo", " ", "dam", "dang", "ja", "bun">>) \o <<Opt({"kke"})>> >>),  \* 거래처 담당자분 | 께
      StarSet({":", ",", " ", "NL", "TAB"})>>

applyRelationship(text, relationshipId) ==
    LET related(t) ==
            CASE relationshipId = "friend" ->
                    replaceEach(t, << <<<<"bu", "tag", "deu", "rib", "ni", "da">>, <<"bu", "tag", "hae">>>>,  \* 부탁드립니다 | 부탁해
                                      <<<<"xyo", "cheong", "deu", "rib", "ni", "da">>, <<"bu", "tag", "hae">>>> >>)  \* 요청드립니다 | 부탁해
              [] relationshipId = "teacher" ->
                    IF ~includes(t, <<"seon", "saeng", "nim">>) /\ includes(t, <<"bu", "tag">>)  \* 선생님 | 부탁
                    THEN replaceAll(t, <<"bu", "tag">>, <<"seon", "saeng", "nim", "kke", " ", "bu", "tag">>) ELSE t  \* 부탁 | 선생님께 부탁
              [] relationshipId = "parent" ->
                    IF ~includes(t, <<"hag", "bu", "mo", "nim">>) /\ includes(t, <<"xan", "nae">>)  \* 학부모님 | 안내
                    THEN replaceAll(t, <<"xan", "nae">>, <<"hag", "bu", "mo", "nim", "kke", " ", "xan", "nae">>) ELSE t  \* 안내 | 학부모님께 안내
              [] relationshipId = "boss" ->
                    IF ~includes(t, <<"sang", "sa", "nim">>) /\ ~includes(t, <<"sang", "sa">>)  \* 상사님 | 상사
                       /\ (includes(t, <<"xyo", "cheong">>) \/ includes(t, <<"bo", "go">>))  \* 요청 | 보고
                    \* /(요청|보고)/g -> '상사님께 $1': the two words share no character
                    THEN replaceEach(t, << <<<<"xyo", "cheong">>, <<"sang", "sa", "nim", "kke", " ", "xyo", "cheong">>>>,  \* 요청 | 상사님께 요청
                                           <<<<"bo", "go">>, <<"sang", "sa", "nim", "kke", " ", "bo", "go">>>> >>)  \* 보고 | 상사님께 보고
                    ELSE t
              [] relationshipId = "customer" ->
                    IF ~includes(t, <<"go", "gaeg", "nim">>) /\ includes(t, <<"xan", "nae">>)  \* 고객님 | 안내
                    THEN replaceAll(t, <<"xan", "nae">>, <<"go", "gaeg", "nim", "kke", " ", "xan", "nae">>) ELSE t  \* 안내 | 고객님께 안내
              [] relationshipId = "client" -> t
              [] OTHER -> <<>>
        \* relationships[relationshipId]?.(text) || text
        orText(t, r) == IF r = <<>> THEN t ELSE r
        applied(t) == orText(t, related(t))
    IN  applied(replace(text, relationshipLabel, <<>>))

\* result.includes('부탁') || ... || result.includes('주시')
hasRequestContext(result) ==
    \E w \in {<<"bu", "tag">>, <<"xyo", "cheong">>, <<"xan", "nae">>, <<"do", "xum">>, <<"do", "xwa">>, <<"hae", "ju">>, <<"ju", "se", "xyo">>, <<"ju", "si">>} :  \* 부탁 | 요청 | 안내 | 도움 | 도와 | 해주 | 주세요 | 주시
        includes(result, w)

\* the switch of applyTone.  The cases 'warning' and 'protest' begin by evaluating
\* purposeId, which is no parameter of applyTone and no binding of the module: the
\* evaluation throws a ReferenceError and nothing of the case runs.
toneSwitch(text, toneId, softToFirm) ==
    LET polite(r) ==
            IF hasRequestContext(r) /\ ~includes(r, <<"jeong", "jung", "hi">>) /\ ~includes(r, <<"gam", "sa">>)  \* 정중히 | 감사
            THEN <<"jeong", "jung", "hi", " ">> \o r ELSE r  \* 정중히 
        firmer(r) ==
            IF ~includes(r, <<"ban", "deu", "si">>) /\ softToFirm > 60  \* 반드시
            THEN replaceAll(r, <<"hae", "ju", "se", "xyo">>, <<"ban", "deu", "si", " ", "hae", "ju", "se", "xyo">>)  \* 해주세요 | 반드시 해주세요
            ELSE r
    IN
    CASE toneId = "cultured" ->
           [threw |-> FALSE,
            text  |-> IF softToFirm > 70
                      THEN replaceEach(
                             polite(replaceEach(text,
                               << <<<<"hae", "jwo">>, <<"hae", "ju", "si", "gi", " ", "ba", "rab", "ni", "da">>>>,  \* 해줘 | 해주시기 바랍니다
                                  <<<<"hae", "jul", "rae">>, <<"hae", "ju", "sil", " ", "su", " ", "xiss", "xeul", "kka", "xyo">>>>,  \* 해줄래 | 해주실 수 있을까요
                                  <<<<"hae">>, <<"ha", "si", "gi", " ", "ba", "rab", "ni", "da">>>>,  \* 해 | 하시기 바랍니다
                                  <<<<"bu", "tag", "hae", "xyo">>, <<"bu", "tag", "deu", "rib", "ni", "da">>>>,  \* 부탁해요 | 부탁드립니다
                                  <<<<"xyo", "cheong", "hae", "xyo">>, <<"xyo", "cheong", "deu", "rib", "ni", "da">>>> >>)),  \* 요청해요 | 요청드립니다
                             << <<<<"ga", "neung", "ha", "si", "myeon">>, <<"ban", "deu", "si">>>>, <<<<"bu", "tag">>, <<"xyo", "cheong">>>> >>)  \* 가능하시면 | 반드시 | 부탁 | 요청
                      ELSE polite(replaceEach(text,
                               << <<<<"hae", "jwo">>, <<"hae", "ju", "si", "gi", " ", "ba", "rab", "ni", "da">>>>,  \* 해줘 | 해주시기 바랍니다
                                  <<<<"hae", "jul", "rae">>, <<"hae", "ju", "sil", " ", "su", " ", "xiss", "xeul", "kka", "xyo">>>>,  \* 해줄래 | 해주실 수 있을까요
                                  <<<<"hae">>, <<"ha", "si", "gi", " ", "ba", "rab", "ni", "da">>>>,  \* 해 | 하시기 바랍니다
                                  <<<<"bu", "tag", "hae", "xyo">>, <<"bu", "tag", "deu", "rib", "ni", "da">>>>,  \* 부탁해요 | 부탁드립니다
                                  <<<<"xyo", "cheong", "hae", "xyo">>, <<"xyo", "cheong", "deu", "rib", "ni", "da">>>> >>))]  \* 요청해요 | 요청드립니다
      [] toneId = "friendly" ->
           [threw |-> FALSE,
            text  |-> IF softToFirm < 30
                      THEN replaceAll(
                             replaceEach(text,
                               << <<<<"seub", "ni", "da">>, <<"xeo", "xyo">>>>,  \* 습니다 | 어요
                                  <<<<"xib", "ni", "da">>, <<"xi", "xe", "xyo">>>>,  \* 입니다 | 이에요
                                  <<<<"ha", "si", "gi", " ", "ba", "rab", "ni", "da">>, <<"hae", "ju", "se", "xyo">>>>,  \* 하시기 바랍니다 | 해주세요
                                  <<<<"bu", "tag", "deu", "rib", "ni", "da">>, <<"bu", "tag", "hae", "xyo">>>>,  \* 부탁드립니다 | 부탁해요
                                  <<<<"xyo", "cheong", "deu", "rib", "ni", "da">>, <<"xyo", "cheong", "hae", "xyo">>>>,  \* 요청드립니다 | 요청해요
                                  <<<<"xan", "nae", "deu", "rib", "ni", "da">>, <<"xal", "ryeo", "deu", "ryeo", "xyo">>>>,  \* 안내드립니다 | 알려드려요
                                  <<<<"gam", "sa", "deu", "rib", "ni", "da">>, <<"gam", "sa", "hae", "xyo">>>> >>),  \* 감사드립니다 | 감사해요
                             <<"hae", "xyo">>, <<"hae", "xyo", "~">>)  \* 해요 | 해요~
                      ELSE replaceEach(text,
                               << <<<<"seub", "ni", "da">>, <<"xeo", "xyo">>>>,  \* 습니다 | 어요
                                  <<<<"xib", "ni", "da">>, <<"xi", "xe", "xyo">>>>,  \* 입니다 | 이에요
                                  <<<<"ha", "si", "gi", " ", "ba", "rab", "ni", "da">>, <<"hae", "ju", "se", "xyo">>>>,  \* 하시기 바랍니다 | 해주세요
                                  <<<<"bu", "tag", "deu", "rib", "ni", "da">>, <<"bu", "tag", "hae", "xyo">>>>,  \* 부탁드립니다 | 부탁해요
                                  <<<<"xyo", "cheong", "deu", "rib", "ni", "da">>, <<"xyo", "cheong", "hae", "xyo">>>>,  \* 요청드립니다 | 요청해요
                                  <<<<"xan", "nae", "deu", "rib", "ni", "da">>, <<"xal", "ryeo", "deu", "ryeo", "xyo">>>>,  \* 안내드립니다 | 알려드려요
                                  <<<<"gam", "sa", "deu", "rib", "ni", "da">>, <<"gam", "sa", "hae", "xyo">>>> >>)]  \* 감사드립니다 | 감사해요
      [] toneId = "firm" ->
           [threw |-> FALSE,
            text  |-> firmer(
                        IF softToFirm > 70
                        THEN replaceEach(
                               replaceEach(text,
                                 << <<<<"bu", "tag", "deu", "rib", "ni", "da">>, <<"xyo", "cheong", "deu", "rib", "ni", "da">>>>,  \* 부탁드립니다 | 요청드립니다
                                    <<<<"ga", "neung", "ha", "si", "myeon">>, <<>>>>,  \* 가능하시면
                                    <<<<"hae", "ju", "si", "gi", " ", "ba", "rab", "ni", "da">>, <<"hae", "ju", "syeo", "xya", " ", "hab", "ni", "da">>>>,  \* 해주시기 바랍니다 | 해주셔야 합니다
                                    <<<<"bu", "tag", "hae", "xyo">>, <<"xyo", "cheong", "hae", "xyo">>>> >>),  \* 부탁해요 | 요청해요
                               << <<<<"xyo", "cheong">>, <<"xyo", "gu">>>>, <<<<"je", "xan">>, <<"xyo", "gu">>>> >>)  \* 요청 | 요구 | 제안 | 요구
                        ELSE replaceEach(text,
                                 << <<<<"bu", "tag", "deu", "rib", "ni", "da">>, <<"xyo", "cheong", "deu", "rib", "ni", "da">>>>,  \* 부탁드립니다 | 요청드립니다
                                    <<<<"ga", "neung", "ha", "si", "myeon">>, <<>>>>,  \* 가능하시면
                                    <<<<"hae", "ju", "si", "gi", " ", "ba", "rab", "ni", "da">>, <<"hae", "ju", "syeo", "xya", " ", "hab", "ni", "da">>>>,  \* 해주시기 바랍니다 | 해주셔야 합니다
                                    <<<<"bu", "tag", "hae", "xyo">>, <<"xyo", "cheong", "hae", "xyo">>>> >>))]  \* 부탁해요 | 요청해요
      [] toneId = "humorous" ->
           [threw |-> FALSE,
            text  |-> replaceEach(text,
                        << <<<<"bu", "tag", "deu", "rib", "ni", "da">>, <<"bu", "tag", "deu", "ryeo", "xyo">>>>,  \* 부탁드립니다 | 부탁드려요
                           <<<<"xyo", "cheong", "deu", "rib", "ni", "da">>, <<"xyo", "cheong", "deu", "ryeo", "xyo">>>>,  \* 요청드립니다 | 요청드려요
                           <<<<"xan", "nae", "deu", "rib", "ni", "da">>, <<"xal", "ryeo", "deu", "ryeo", "xyo">>>> >>)]  \* 안내드립니다 | 알려드려요
      [] toneId = "apology" ->
           [threw |-> FALSE,
            text  |-> replaceEach(
                        IF ~includes(text, <<"joe", "song">>) /\ ~includes(text, <<"sa", "gwa">>)  \* 죄송 | 사과
                        THEN <<"jin", "sim", "xeu", "ro", " ", "sa", "gwa", "deu", "ri", "myeo", ",", " ">> \o text ELSE text,  \* 진심으로 사과드리며, 
                        << <<<<"bu", "tag", "deu", "rib", "ni", "da">>, <<"xyang", "hae", " ", "bu", "tag", "deu", "rib", "ni", "da">>>>,  \* 부탁드립니다 | 양해 부탁드립니다
                           <<<<"xyo", "cheong", "deu", "rib", "ni", "da">>, <<"xyang", "hae", " ", "bu", "tag", "deu", "rib", "ni", "da">>>> >>)]  \* 요청드립니다 | 양해 부탁드립니다
      [] toneId = "warm" ->
           [threw |-> FALSE,
            text  |-> replaceEach(
                        IF hasRequestContext(text) /\ ~includes(text, <<"gam", "sa">>)  \* 감사
                           /\ ~includes(text, <<"go", "mab">>)  \* 고맙
                        THEN <<"gam", "sa", "deu", "ri", "myeo", ",", " ">> \o text ELSE text,  \* 감사드리며, 
                        << <<<<"bu", "tag", "deu", "rib", "ni", "da">>, <<"bu", "tag", "deu", "ryeo", "xyo">>>>,  \* 부탁드립니다 | 부탁드려요
                           <<<<"xyo", "cheong", "deu", "rib", "ni", "da">>, <<"bu", "tag", "deu", "ryeo", "xyo">>>> >>)]  \* 요청드립니다 | 부탁드려요
      [] toneId = "notice-formal" ->
           [threw |-> FALSE,
            text  |-> replaceEach(
                        IF ~includes(text, <<"[", "gong", "ji", "]">>) /\ ~includes(text, <<"gong", "ji">>)  \* [공지] | 공지
                        THEN <<"[", "gong", "ji", "]", " ">> \o text ELSE text,  \* [공지] 
                        << <<<<"bu", "tag", "deu", "rib", "ni", "da">>, <<"bu", "tag", "deu", "ri", "gess", "seub", "ni", "da">>>>,  \* 부탁드립니다 | 부탁드리겠습니다
                           <<<<"xyo", "cheong", "deu", "rib", "ni", "da">>, <<"xyo", "cheong", "deu", "ri", "gess", "seub", "ni", "da">>>>,  \* 요청드립니다 | 요청드리겠습니다
                           <<<<"xan", "nae", "deu", "rib", "ni", "da">>, <<"xan", "nae", "deu", "ri", "gess", "seub", "ni", "da">>>> >>)]  \* 안내드립니다 | 안내드리겠습니다
      [] toneId \in {"warning", "protest"} -> [threw |-> TRUE, text |-> text]
      [] OTHER -> [threw |-> FALSE, text |-> text]

applyTone(text, toneId, softToFirm, variantType, originalText) ==
    LET thankful(s) ==
            IF hasRequestContext(s) /\ ~includes(s, <<"gam", "sa">>) /\ ~includes(s, <<"go", "mab">>)  \* 감사 | 고맙
            THEN <<"gam", "sa", "deu", "ri", "myeo", ",", " ">> \o s ELSE s  \* 감사드리며, 
        softer(r) ==
            IF softToFirm < 30
            THEN thankful(replaceEach(r, << <<<<"xyo", "cheong">>, <<"bu", "tag">>>>, <<<<"xyo", "gu">>, <<"je", "xan">>>> >>))  \* 요청 | 부탁 | 요구 | 제안
            ELSE r
        strength(r) ==
            softer(IF softToFirm > 70
                   THEN replaceEach(r,
                          << <<<<"ga", "neung", "ha", "si", "myeon">>, <<>>>>,  \* 가능하시면
                             <<<<"bu", "tag", "deu", "rib", "ni", "da">>, <<"xyo", "cheong", "deu", "rib", "ni", "da">>>>,  \* 부탁드립니다 | 요청드립니다
                             <<<<"bu", "tag", "hae", "xyo">>, <<"xyo", "cheong", "hae", "xyo">>>>,  \* 부탁해요 | 요청해요
                             <<<<"je", "xan">>, <<"xyo", "gu">>>> >>)  \* 제안 | 요구
                   ELSE r)
        finish(sw) == IF sw.threw THEN sw ELSE [threw |-> FALSE, text |-> strength(sw.text)]
    IN  finish(toneSwitch(text, toneId, softToFirm))

applyAudienceLevel(text, audienceId) ==
    CASE audienceId = "elementary1" ->
           replaceEach(text,
             << <<<<"bu", "tag", "deu", "rib", "ni", "da">>, <<"bu", "tag", "hae">>>>,  \* 부탁드립니다 | 부탁해
                <<<<"xyo", "cheong", "deu", "rib", "ni", "da">>, <<"bu", "tag", "hae">>>>,  \* 요청드립니다 | 부탁해
                <<<<"xan", "nae", "deu", "rib", "ni", "da">>, <<"xal", "ryeo", "jul", "ge">>>>,  \* 안내드립니다 | 알려줄게
                <<<<"je", "xan", "deu", "rib", "ni", "da">>, <<"je", "xan", "hae">>>>,  \* 제안드립니다 | 제안해
                <<<<"beob", "jeog", " ", "jeol", "cha">>, <<"da", "xeum", " ", "jo", "chi">>>>,  \* 법적 절차 | 다음 조치
                <<<<"si", "jeong", "xeul", " ", "xyo", "gu">>, <<"ba", "ro", " ", "hae", "jwo">>>>,  \* 시정을 요구 | 바로 해줘
                <<<<"gi", "han", " ", "nae">>, <<"si", "gan", " ", "nae", "xe">>>> >>)  \* 기한 내 | 시간 내에
      [] audienceId = "elementary" ->
           replaceEach(text,
             << <<<<"bu", "tag", "deu", "rib", "ni", "da">>, <<"bu", "tag", "hae", "xyo">>>>,  \* 부탁드립니다 | 부탁해요
                <<<<"xyo", "cheong", "deu", "rib", "ni", "da">>, <<"xyo", "cheong", "hae", "xyo">>>>,  \* 요청드립니다 | 요청해요
                <<<<"beob", "jeog", " ", "jeol", "cha">>, <<"da", "xeum", " ", "jo", "chi">>>>,  \* 법적 절차 | 다음 조치
                <<<<"si", "jeong", "xeul", " ", "xyo", "gu">>, <<"ba", "ro", " ", "hae", "ju", "se", "xyo">>>> >>)  \* 시정을 요구 | 바로 해주세요
      [] audienceId = "middle" ->
           replaceEach(text,
             << <<<<"bu", "tag", "deu", "rib", "ni", "da">>, <<"bu", "tag", "hae", "xyo">>>>,  \* 부탁드립니다 | 부탁해요
                <<<<"xyo", "cheong", "deu", "rib", "ni", "da">>, <<"xyo", "cheong", "hae", "xyo">>>> >>)  \* 요청드립니다 | 요청해요
      [] audienceId = "high" ->
           replaceEach(text,
             << <<<<"bu", "tag", "deu", "rib", "ni", "da">>, <<"bu", "tag", "deu", "ryeo", "xyo">>>>,  \* 부탁드립니다 | 부탁드려요
                <<<<"xyo", "cheong", "deu", "rib", "ni", "da">>, <<"xyo", "cheong", "deu", "ryeo", "xyo">>>> >>)  \* 요청드립니다 | 요청드려요
      [] audienceId = "senior" ->
           trim(replace(collapseSpaces(text),
                        AltLit(<< <<"JK", "JK">>, <<"JH", "JH">>, <<"JYU", "JYU">> >>),
                        <<>>))
      [] OTHER -> text
\* text.length > 80, and text.substring(0, 77)
ShortLimit == 80
ShortCut   == 77

\* for (const word of words) { if ((short + ' ' + word).length > 80) break; ... }
RECURSIVE shortLoop(_, _, _)
shortLoop(words, k, short) ==
    IF k > Len(words) THEN short
    ELSE IF Len(short) + 1 + Len(words[k]) > ShortLimit THEN short
    ELSE shortLoop(words, k + 1,
                   (IF short # <<>> THEN short \o <<" ">> ELSE <<>>) \o words[k])

noDeadlineWord(s) ==
    ~includes(s, <<"gi", "han">>) /\ ~includes(s, <<"kka", "ji">>) /\ ~includes(s, <<"xo", "neul">>)  \* 기한 | 까지 | 오늘
    /\ ~includes(s, <<"nae", "xil">>)  \* 내일

applyLengthRule(text, variantType, autoIncludeDetails, toneId, originalText) ==
    LET hasTime   == originalText # <<>> /\ hasTimeExpression(originalText)
        hasAction == originalText # <<>> /\ hasActionExpression(originalText)
        orCut(short) == IF short # <<>> THEN short ELSE substring(text, 0, ShortCut)
        noContact(s) == ~includes(s, <<"mun", "xui">>) /\ ~includes(s, <<"xyeon", "rag">>)  \* 문의 | 연락
        contact(l) ==
            IF noContact(l) THEN l \o <<" ", "mun", "xui", "sa", "hang", "xi", " ", "xiss", "xeu", "si", "myeon", " ", "xyeon", "rag", " ", "ju", "si", "gi", " ", "ba", "rab", "ni", "da", ".">> ELSE l  \*  문의사항이 있으시면 연락 주시기 바랍니다.
        followUp(l) ==
            IF hasAction /\ ~includes(l, <<"da", "xeum">>) /\ ~includes(l, <<"hu", "sog">>)  \* 다음 | 후속
               /\ ~includes(l, <<"chu", "hu">>)  \* 추후
            THEN l \o <<" ", "chu", "ga", " ", "xan", "nae", "neun", " ", "byeol", "do", "ro", " ", "gong", "ji", "deu", "ri", "gess", "seub", "ni", "da", ".">> ELSE l  \*  추가 안내는 별도로 공지드리겠습니다.
        deadline(l) ==
            IF hasTime /\ noDeadlineWord(l) THEN l \o <<" ", "xo", "neul", " ", "xo", "hu", " ", "6", "si", "kka", "ji", " ", "bu", "tag", "deu", "rib", "ni", "da", ".">> ELSE l  \*  오늘 오후 6시까지 부탁드립니다.
        detailed(l) ==
            IF autoIncludeDetails THEN contact(followUp(deadline(l)))
            ELSE IF hasTime /\ noDeadlineWord(l) /\ noContact(l)
                    /\ ~includes(l, <<"da", "xeum">>) /\ ~includes(l, <<"hu", "sog">>)  \* 다음 | 후속
            THEN l \o <<" ", "xo", "neul", " ", "jung", "xeu", "ro", " ", "bu", "tag", "deu", "rib", "ni", "da", ".">>  \*  오늘 중으로 부탁드립니다.
            ELSE IF ~hasTime /\ noContact(l)
            THEN l \o <<" ", "mun", "xui", "sa", "hang", "xi", " ", "xiss", "xeu", "si", "myeon", " ", "xyeon", "rag", " ", "ju", "si", "gi", " ", "ba", "rab", "ni", "da", ".">>  \*  문의사항이 있으시면 연락 주시기 바랍니다.
            ELSE l
    IN  CASE variantType = "short" ->
               IF Len(text) > ShortLimit
               THEN orCut(shortLoop(splitWords(text), 1, <<>>))
               ELSE text
          [] variantType = "standard" ->
               IF noDeadlineWord(text) /\ hasTime
               THEN IF toneId = "friendly"
                    THEN text \o <<" ", "ga", "neung", "ha", "si", "myeon", " ", "xo", "neul", " ", "jung", "xeu", "ro", " ", "bu", "tag", "deu", "ryeo", "xyo", ".">>  \*  가능하시면 오늘 중으로 부탁드려요.
                    ELSE text \o <<" ", "xo", "neul", " ", "jung", "xeu", "ro", " ", "bu", "tag", "deu", "rib", "ni", "da", ".">>  \*  오늘 중으로 부탁드립니다.
               ELSE text
          [] variantType = "long" ->
               detailed(IF ~includes(text, <<"bae", "gyeong">>) /\ ~includes(text, <<"gwan", "ryeon">>)  \* 배경 | 관련
                           /\ ~includes(text, <<"cham", "go">>)  \* 참고
                        THEN IF toneId \in {"notice-formal", "cultured"}
                             THEN <<"gwan", "ryeon", " ", "sa", "hang", "xe", " ", "dae", "hae", " ", "xan", "nae", "deu", "rib", "ni", "da", ".", " ">> \o text  \* 관련 사항에 대해 안내드립니다. 
                             ELSE <<"gwan", "ryeon", "ha", "xyeo", " ", "xan", "nae", "deu", "rib", "ni", "da", ".", " ">> \o text  \* 관련하여 안내드립니다. 
                        ELSE text)
          [] OTHER -> text

\* the outcome of one stage: the text it returns, or that it threw
Returns(text) == [threw |-> FALSE, text |-> text]

\* the stages of applyRewriteRules, in the order of their calls
Stages ==
    <<"convertEnglishToKorean", "normalizeInputText", "applyPurposeTemplate", "applyTone",
      "applyFormatOption", "applyRelationship", "applyAudienceLevel",
      "applySoftRequestRule", "applyLengthRule", "applyLanguagePolicy",
      "validateAndFixStyleConsistency", "validateContextIntegrity",
      "validateFormalConsistency", "validateParticleOnlyIssue",
      "validateEnglishHelperMode">>

\* the k-th statement of applyRewriteRules: result is the text so far, a the arguments
\* of the call (a.text is originalText)
Stage(k, result, a) ==
    CASE Stages[k] = "convertEnglishToKorean" ->
           Returns(IF a.language = "ko"
                   THEN convertEnglishToKorean(result, a.englishHelperMode, a.text)
                   ELSE result)
      [] Stages[k] = "normalizeInputText" ->
           Returns(normalizeInputText(result, a.toneId))
      [] Stages[k] = "applyPurposeTemplate" ->
           Returns(applyPurposeTemplate(result, a.purposeId, a.autoIncludeDetails, a.text))
      [] Stages[k] = "applyTone" ->
           applyTone(result, a.toneId, a.softToFirm, a.variantType, a.text)
      [] Stages[k] = "applyFormatOption" ->
           Returns(applyFormatOption(result, a.format))
      [] Stages[k] = "applyRelationship" ->
           Returns(IF a.relationshipId \in RELATIONSHIPS
                   THEN applyRelationship(result, a.relationshipId)
                   ELSE result)
      [] Stages[k] = "applyAudienceLevel" ->
           Returns(applyAudienceLevel(result, a.audienceId))
      [] Stages[k] = "applySoftRequestRule" ->
           Returns(applySoftRequestRule(result, a.variantType, a.softToFirm))
      [] Stages[k] = "applyLengthRule" ->
           Returns(applyLengthRule(result, a.variantType, a.autoIncludeDetails, a.toneId,
                                   a.text))
      [] Stages[k] = "applyLanguagePolicy" ->
           Returns(applyLanguagePolicy(result, a.language, a.englishHelperMode, a.text))
      [] Stages[k] = "validateAndFixStyleConsistency" ->
           Returns(validateAndFixStyleConsistency(result, a.toneId, a.variantType))
      [] Stages[k] = "validateContextIntegrity" ->
           Returns(validateContextIntegrity(result, a.text))
      [] Stages[k] = "validateFormalConsistency" ->
           Returns(validateFormalConsistency(result, a.toneId))
      [] Stages[k] = "validateParticleOnlyIssue" ->
           Returns(validateParticleOnlyIssue(result, a.text))
      [] Stages[k] = "validateEnglishHelperMode" ->
           Returns(validateEnglishHelperMode(result, a.englishHelperMode, a.text))

\* the statements from the k-th on; an exception ends the call.  StageDone is the
\* call after its k-th statement came to out
RECURSIVE StagesFrom(_, _, _), StageDone(_, _, _)
StagesFrom(k, result, a) ==
    IF k > Len(Stages) THEN Returns(result)
    ELSE StageDone(k, a, Stage(k, result, a))
StageDone(k, a, out) ==
    IF out.threw THEN out ELSE StagesFrom(k + 1, out.text, a)

\* applyRewriteRules(text, tonePreset, audience, purpose, relationship, strength, format,
\* requestedLength, variantType, resultOptions, language, englishHelperMode), its
\* arguments as the record a
applyRewriteRules(a) == StagesFrom(1, a.text, a)

(***************************************************************************)
(* services/planLimits.ts and rewriteText.                                 *)
(***************************************************************************)
getPlanLimits(plan, bypass) ==
    IF bypass
    THEN [dailyRewrites |-> 999999, weeklyRewrites |-> 999999, maxVariants |-> 3]
    ELSE CASE plan = "pro" ->
                [dailyRewrites |-> 100, weeklyRewrites |-> 500, maxVariants |-> 3]
           [] plan = "business" ->
                [dailyRewrites |-> 1000, weeklyRewrites |-> 5000, maxVariants |-> 3]
           [] OTHER ->
                [dailyRewrites |-> 10, weeklyRewrites |-> 50, maxVariants |-> 2]

\* the mutation of ArgsOf: the requested length is passed where the variant type belongs
ArgsOfRequested(request, type) ==
    [text               |-> request.text,
     toneId             |-> request.tonePresetId,
     audienceId         |-> request.audienceLevelId,
     purposeId          |-> request.purposeTypeId,
     relationshipId     |-> request.relationshipId,
     softToFirm         |-> request.strength,
     format             |-> request.format,
     requestedLength    |-> type,
     variantType        |-> request.length,
     autoIncludeDetails |-> request.autoIncludeDetails,
     language           |-> IF request.language = "missing" THEN "ko" ELSE request.language,
     englishHelperMode  |-> request.englishHelperMode]

\* the arguments rewriteText passes to applyRewriteRules for one variant type
ArgsOf(request, type) ==
    [text               |-> request.text,
     toneId             |-> request.tonePresetId,
     audienceId         |-> request.audienceLevelId,
     purposeId          |-> request.purposeTypeId,
     relationshipId     |-> request.relationshipId,
     softToFirm         |-> request.strength,
     format             |-> request.format,
     requestedLength    |-> request.length,
     variantType        |-> type,
     autoIncludeDetails |-> request.autoIncludeDetails,
     language           |-> IF request.language = "missing" THEN "ko" ELSE request.language,
     englishHelperMode  |-> request.englishHelperMode]

\* return { variants: [], safety: { blocked: false, reason: 'englishHelperMode missing' } }
missingModeResult ==
    [threw |-> FALSE, variants |-> <<>>,
     safety |-> [blocked |-> FALSE, reason |-> "englishHelperMode missing"]]

\* the mutation of blockedResult: the verdict is returned with a variant beside it
blockedWithVariant(request, safety) ==
    [threw |-> FALSE, variants |-> <<[type |-> "standard", text |-> request.text]>>,
     safety |-> [blocked |-> safety.blocked, reason |-> safety.reason]]

\* if (safety.blocked) return { variants: [], safety }
blockedResult(request, safety) ==
    [threw |-> FALSE, variants |-> <<>>,
     safety |-> [blocked |-> safety.blocked, reason |-> safety.reason]]

\* return { variants, safety: { blocked: false } }
variantsResult(variants) ==
    [threw |-> FALSE, variants |-> variants,
     safety |-> [blocked |-> FALSE, reason |-> "none"]]

\* the call ended in an exception: nothing is returned
thrownResult ==
    [threw |-> TRUE, variants |-> <<>>, safety |-> [blocked |-> FALSE, reason |-> "none"]]

\* the mutation of presetsResolved: the tone preset is not looked at
presetsResolvedButTone(request) ==
    /\ request.audienceLevelId \in AUDIENCE_LEVELS
    /\ request.purposeTypeId \in PURPOSE_TYPES

\* !(!tonePreset || !audience || !purpose)
presetsResolved(request) ==
    /\ request.tonePresetId \in ToneIds
    /\ request.audienceLevelId \in AUDIENCE_LEVELS
    /\ request.purposeTypeId \in PURPOSE_TYPES

variantTypesOf(request, bypass) ==
    IF bypass \/ getPlanLimits(request.plan, bypass).maxVariants >= 3
    THEN <<"short", "standard", "long">>
    ELSE IF request.length = "short" THEN <<"short">>
    ELSE IF request.length = "long" THEN <<"long">>
    ELSE <<"standard", "short">>

\* for (const type of variantTypes) { variants.push({ type, text: applyRewriteRules(...) }) }
\* variantPush is one round of the loop, given what applyRewriteRules came to
RECURSIVE variantLoop(_, _, _, _), variantPush(_, _, _, _, _)
variantLoop(request, variantTypes, k, variants) ==
    IF k > Len(variantTypes) THEN variantsResult(variants)
    ELSE variantPush(request, variantTypes, k, variants,
                     applyRewriteRules(ArgsOf(request, variantTypes[k])))
variantPush(request, variantTypes, k, variants, rewritten) ==
    IF rewritten.threw THEN thrownResult
    ELSE variantLoop(request, variantTypes, k + 1,
                     Append(variants, [type |-> variantTypes[k], text |-> rewritten.text]))

\* the steps rewriteText and rewriteTextForTemplate share, from the verdict of
\* validateTextSafety on: the verdict, the preset lookups, and applyRewriteRules for
\* each of variantTypes
rewriteTyped(request, variantTypes, safety) ==
    [result |-> IF safety.blocked THEN blockedResult(request, safety)
                ELSE IF ~presetsResolved(request) THEN variantsResult(<<>>)
                ELSE variantLoop(request, variantTypes, 1, <<>>),
     dangerousLI |-> safety.dangerousLI, allowedLI |-> safety.allowedLI]

\* rewriteText from the verdict of validateTextSafety on
rewriteChecked(request, bypass, safety) ==
    rewriteTyped(request, variantTypesOf(request, bypass), safety)

\* rewriteText(request) in a process whose pattern tables hold the lastIndex values
\* dangerousLI and allowedLI: what it returns, and the values it leaves
rewriteText(request, bypass, dangerousLI, allowedLI) ==
    IF request.englishHelperMode = "missing"
    THEN [result |-> missingModeResult,
          dangerousLI |-> dangerousLI, allowedLI |-> allowedLI]
    ELSE rewriteChecked(request, bypass,
                        validateTextSafety(request.text, request.tonePresetId,
                                           dangerousLI, allowedLI))

(***************************************************************************)
(* The preview quota: server/src/services/previewQuota.ts.  quotaStore is   *)
(* a Map from user keys to QuotaUsage; the model keeps the entry of one     *)
(* key.  A date string 'YYYY-MM-DD' is the number of the day it names, and  *)
(* an optional number is the sequence of no or one number.                  *)
(***************************************************************************)
\* the defaults of getQuotaConfig(), taken when the environment variable is not set
FREE_PREVIEW_DAILY_LIMIT == 3
FREE_PREVIEW_TOTAL_LIMIT == 5
FREE_PREVIEW_MAX_LENGTH_SEC == 10

\* the environment variables set for the limits that are off by default
SetMaxChars == 12
SetMaxSentences == 1
SetPaidDailyLimit == 2
SetPaidMaxLength == 5

\* getQuotaConfig() when the environment sets the five limits that follow and leaves
\* the daily limit and the length limit of the free plan unset
getQuotaConfig(totalLimit, maxChars, maxSentences, paidDailyLimit, paidMaxLength) ==
    [freeDailyLimit |-> FREE_PREVIEW_DAILY_LIMIT, freeTotalLimit |-> totalLimit,
     freeMaxLength |-> FREE_PREVIEW_MAX_LENGTH_SEC, freeMaxChars |-> maxChars,
     freeMaxSentences |-> maxSentences, paidDailyLimit |-> paidDailyLimit,
     paidMaxLength |-> paidMaxLength]

\* the environment sets none of the variables
DefaultQuotaConfig == getQuotaConfig(FREE_PREVIEW_TOTAL_LIMIT, 0, 0, 0, 0)

\* the environments explored: nothing set; the total limit switched off; the character
\* and the sentence limit set; the paid limits set
QuotaConfigs ==
    {DefaultQuotaConfig,
     getQuotaConfig(0, 0, 0, 0, 0),
     getQuotaConfig(FREE_PREVIEW_TOTAL_LIMIT, SetMaxChars, SetMaxSentences, 0, 0),
     getQuotaConfig(FREE_PREVIEW_TOTAL_LIMIT, 0, 0, SetPaidDailyLimit, SetPaidMaxLength)}

\* quotaStore.get(key) is undefined: no date is day 0
NoQuota == [dailyCount |-> 0, totalCount |-> 0, lastResetDate |-> 0, firstUseDate |-> 0]

\* getOrCreateUsage(identifier): the entry of the key, started or reset for today; the
\* entry returned is the one the store holds afterwards
getOrCreateUsage(usage, today) ==
    IF usage = NoQuota \/ usage.lastResetDate # today
    THEN [dailyCount |-> 0,
          totalCount |-> IF usage = NoQuota THEN 0 ELSE usage.totalCount,
          lastResetDate |-> today,
          firstUseDate |-> IF usage = NoQuota \/ usage.firstUseDate = 0 THEN today
                           ELSE usage.firstUseDate]
    ELSE usage

\* text.replace(/\s/g, '').length
RECURSIVE nonSpaceCount(_)
nonSpaceCount(text) ==
    IF text = <<>> THEN 0
    ELSE (IF Head(text) \in Space THEN 0 ELSE 1) + nonSpaceCount(Tail(text))

\* estimateDuration(text): Math.ceil(charCount / 3.5)
estimateDuration(text) == (2 * nonSpaceCount(text) + 6) \div 7

\* the pieces of text.split(/[.!?]+/) from position i on that hold a character other
\* than white space; seen tells whether the piece being read holds one
RECURSIVE sentencesFrom(_, _, _)
sentencesFrom(text, i, seen) ==
    IF i > Len(text) THEN (IF seen THEN 1 ELSE 0)
    ELSE IF text[i] \in {".", "!", "?"}
         THEN (IF seen THEN 1 ELSE 0) + sentencesFrom(text, i + 1, FALSE)
         ELSE sentencesFrom(text, i + 1, seen \/ text[i] \notin Space)

\* countSentences(text)
countSentences(text) == sentencesFrom(text, 1, FALSE)

\* Math.min(a, b || Infinity): b counts as Infinity when it is 0
minOrInfinity(a, b) == IF b = 0 THEN a ELSE IF a <= b THEN a ELSE b

\* Math.max(0, n)
atLeastZero(n) == IF n < 0 THEN 0 ELSE n

\* a QuotaCheckResult; errorCode is "none" and the optional numbers are <<>> when absent
denied(errorCode, upgradeRequired, limitCount, resetAt) ==
    [allowed |-> FALSE, errorCode |-> errorCode, upgradeRequired |-> upgradeRequired,
     remainingCount |-> IF errorCode = "QUOTA_EXCEEDED" THEN <<0>> ELSE <<>>,
     limitCount |-> limitCount, resetAt |-> resetAt]

allowedWith(remainingCount, limitCount) ==
    [allowed |-> TRUE, errorCode |-> "none", upgradeRequired |-> FALSE,
     remainingCount |-> remainingCount, limitCount |-> limitCount,
     resetAt |-> "tomorrow"]

\* checkPreviewQuota(identifier, plan, text) on the entry getOrCreateUsage returned
checkPreviewQuota(config, usage, plan, text) ==
    IF plan # "free"
    THEN IF config.paidMaxLength > 0 /\ estimateDuration(text) > config.paidMaxLength
         THEN denied("LENGTH_EXCEEDED", FALSE, <<>>, "none")
         ELSE IF config.paidDailyLimit > 0 /\ usage.dailyCount >= config.paidDailyLimit
         THEN denied("QUOTA_EXCEEDED", FALSE, <<config.paidDailyLimit>>, "tomorrow")
         ELSE IF config.paidDailyLimit > 0
         THEN allowedWith(<<atLeastZero(config.paidDailyLimit - usage.dailyCount - 1)>>,
                          <<config.paidDailyLimit>>)
         ELSE allowedWith(<<>>, <<>>)
    ELSE IF usage.dailyCount >= config.freeDailyLimit
         THEN denied("QUOTA_EXCEEDED", TRUE, <<config.freeDailyLimit>>, "tomorrow")
    ELSE IF config.freeTotalLimit > 0 /\ usage.totalCount >= config.freeTotalLimit
         THEN denied("QUOTA_EXCEEDED", TRUE, <<config.freeTotalLimit>>, "none")
    ELSE IF estimateDuration(text) > config.freeMaxLength
         THEN denied("LENGTH_EXCEEDED", TRUE, <<>>, "none")
    ELSE IF config.freeMaxChars > 0 /\ Len(text) > config.freeMaxChars
         THEN denied("LENGTH_EXCEEDED", TRUE, <<>>, "none")
    ELSE IF config.freeMaxSentences > 0 /\ countSentences(text) > config.freeMaxSentences
         THEN denied("LENGTH_EXCEEDED", TRUE, <<>>, "none")
    ELSE IF config.freeTotalLimit > 0
         THEN allowedWith(
                  <<atLeastZero(minOrInfinity(
                        config.freeDailyLimit - usage.dailyCount - 1,
                        config.freeTotalLimit - usage.totalCount - 1))>>,
                  <<IF config.freeDailyLimit <= config.freeTotalLimit
                    THEN config.freeDailyLimit ELSE config.freeTotalLimit>>)
         ELSE allowedWith(<<atLeastZero(config.freeDailyLimit - usage.dailyCount - 1)>>,
                          <<config.freeDailyLimit>>)

\* the mutation of incrementPreviewUsage: the daily count alone goes up
incrementPreviewUsageDaily(usage) ==
    [usage EXCEPT !.dailyCount = usage.dailyCount + 1]

\* incrementPreviewUsage(identifier) on the entry getOrCreateUsage returned
incrementPreviewUsage(usage) ==
    [usage EXCEPT !.dailyCount = usage.dailyCount + 1,
                  !.totalCount = usage.totalCount + 1]

\* getPreviewUsage(identifier, plan) on the entry getOrCreateUsage returned; resetAt is
\* the next midnight in every answer
getPreviewUsage(config, usage, plan) ==
    IF plan # "free"
    THEN IF config.paidDailyLimit > 0
         THEN [remainingCount |-> atLeastZero(config.paidDailyLimit - usage.dailyCount),
               limitCount |-> config.paidDailyLimit]
         ELSE [remainingCount |-> -1, limitCount |-> -1]
    ELSE IF config.freeTotalLimit > 0
         THEN [remainingCount |->
                   atLeastZero(minOrInfinity(config.freeDailyLimit - usage.dailyCount,
                                             config.freeTotalLimit - usage.totalCount)),
               limitCount |-> IF config.freeDailyLimit <= config.freeTotalLimit
                              THEN config.freeDailyLimit ELSE config.freeTotalLimit]
         ELSE [remainingCount |-> atLeastZero(config.freeDailyLimit - usage.dailyCount),
               limitCount |-> config.freeDailyLimit]

\* what the caller of the quota functions holds: its plan, the last answer of
\* checkPreviewQuota (allowed tells that it allowed a preview not counted yet), the last
\* answer of getPreviewUsage, and the previews counted on each day
NoCheck == [allowed |-> FALSE, errorCode |-> "no call"]
NoAnswer == [remainingCount |-> 0, limitCount |-> 0]

(***************************************************************************)
(* The server process: rewriteText is called again and again on one        *)
(* module instance.  What survives a call is the lastIndex of the          *)
(* patterns of safety.ts; BYPASS_LIMITS is read once from the environment. *)
(***************************************************************************)
MaxWords == 3

Vocabulary == <<<<"jug", "xyeo">>, <<"hoe", "xui">>>>  \* 죽여 | 회의

RECURSIVE Phrases(_)
Phrases(n) ==
    IF n = 1 THEN {Vocabulary[i] : i \in 1..Len(Vocabulary)}
    ELSE LET shorter == Phrases(n - 1)
         IN  shorter \cup {p \o <<" ">> \o Vocabulary[i] :
                             p \in {q \in shorter : Len(splitWords(q)) = n - 1},
                             i \in 1..Len(Vocabulary)}

Texts == Phrases(MaxWords)

\* the (tone, purpose, audience, bilingual mode) a request carries: catalog ids and
\* unknown ones, the mode given or left out
Selections ==
    {<<t, "request", "adult", "off">> : t \in {"friendly", "protest", "nonexistent"}}
    \cup {<<"friendly", "nonexistent", "adult", "off">>,
          <<"friendly", "request", "nonexistent", "off">>,
          <<"friendly", "request", "adult", "missing">>}

\* the (plan, length) a request carries: every length on the free plan, and the paid plans
PlanLengths ==
    {<<"free", "short">>, <<"free", "standard">>, <<"free", "long">>,
     <<"pro", "short">>, <<"business", "standard">>}

\* the requests of the catalog tones come with every (plan, length); the others with one
PlanLengthsOf(s) ==
    IF s \in {<<"friendly", "request", "adult", "off">>, <<"protest", "request", "adult", "off">>}
    THEN PlanLengths ELSE {<<"free", "short">>}

Requests ==
    {[text |-> t, tonePresetId |-> sl[1][1], purposeTypeId |-> sl[1][2],
      audienceLevelId |-> sl[1][3],
      relationshipId |-> "none", strength |-> 50, format |-> "message", length |-> sl[2][2],
      autoIncludeDetails |-> FALSE, language |-> "missing", englishHelperMode |-> sl[1][4],
      plan |-> sl[2][1]] :
        t \in Texts, sl \in {q \in Selections \X PlanLengths : q[2] \in PlanLengthsOf(q[1])}}

NoRequest == [text |-> <<>>]
NoResult  == [threw |-> FALSE, variants |-> <<>>, safety |-> [blocked |-> FALSE, reason |-> "no call"]]

VARIABLES BYPASS_LIMITS, dangerousLastIndex, allowedLastIndex, pc, request, returned,
          previous, args, stage, result, threw, usage, body, response, config,
          quotaStore, today, preview

vars == <<BYPASS_LIMITS, dangerousLastIndex, allowedLastIndex, pc, request, returned,
          previous, args, stage, result, threw, usage, body, response, config,
          quotaStore, today, preview>>

processVars  == <<BYPASS_LIMITS, dangerousLastIndex, allowedLastIndex, pc, request,
                  returned, previous>>
pipelineVars == <<args, stage, result, threw>>
httpVars     == <<usage, body, response>>
quotaVars    == <<config, quotaStore, today, preview>>

NoArgs == [text |-> <<>>]

\* no preview is asked for: the quota store is empty and its functions are not called
QuotaIdle ==
    /\ config = DefaultQuotaConfig
    /\ quotaStore = NoQuota
    /\ today = 1
    /\ preview = [plan |-> "free", allowed |-> FALSE, check |-> NoCheck,
                  answer |-> NoAnswer, counted |-> <<>>]

Init ==
    /\ BYPASS_LIMITS \in BOOLEAN
    /\ dangerousLastIndex = [k \in 1..Len(DANGEROUS_PATTERNS) |-> 0]
    /\ allowedLastIndex = [k \in 1..Len(ALLOWED_STRONG_EXPRESSIONS) |-> 0]
    /\ pc = "idle"
    /\ request = NoRequest
    /\ returned = NoResult
    /\ previous = NoResult
    /\ args = NoArgs /\ stage = 0 /\ result = <<>> /\ threw = FALSE
    /\ usage = [daily |-> 0, weekly |-> 0] /\ body = [hasText |-> FALSE]
    /\ response = [handler |-> "none"]
    /\ QuotaIdle

\* a client posts a request; previous keeps what the same request returned last time
Call ==
    /\ pc = "idle"
    /\ \E req \in Requests :
         /\ request' = req
         /\ previous' = IF req = request THEN returned ELSE NoResult
    /\ returned' = NoResult
    /\ pc' = "called"
    /\ UNCHANGED <<BYPASS_LIMITS, dangerousLastIndex, allowedLastIndex>>
    /\ UNCHANGED pipelineVars
    /\ UNCHANGED httpVars
    /\ UNCHANGED quotaVars

\* rewriteText runs to its return (or to the exception that ends it)
RewriteText ==
    /\ pc = "called"
    /\ LET return(out) ==
               /\ returned' = out.result
               /\ dangerousLastIndex' = out.dangerousLI
               /\ allowedLastIndex' = out.allowedLI
       IN  return(rewriteText(request, BYPASS_LIMITS, dangerousLastIndex, allowedLastIndex))
    /\ pc' = "idle"
    /\ UNCHANGED <<BYPASS_LIMITS, request, previous>>
    /\ UNCHANGED pipelineVars
    /\ UNCHANGED httpVars
    /\ UNCHANGED quotaVars

Next == Call \/ RewriteText

Spec == Init /\ [][Next]_vars

(***************************************************************************)
(* One call of applyRewriteRules, statement by statement: the calls        *)
(* rewriteText makes for a request that passed the gate of a fresh         *)
(* process and whose presets resolved.                                     *)
(***************************************************************************)
PipeTexts ==
    { <<"hoe", "xui", " ", "ja", "ryo", " ", "bo", "nae", "jwo">>,  \* 회의 자료 보내줘
      <<"geum", "xyo", "xil", "xe", " ", "hoe", "xui", " ", "ja", "ryo", " ", "bu", "tag">>,  \* 금요일에 회의 자료 부탁
      <<"xo", "neul", " ", "xo", "hu", " ", "3", "si", "kka", "ji", " ", "bo", "go", "seo", " ", "bu", "tag", "deu", "rib", "ni", "da">>,  \* 오늘 오후 3시까지 보고서 부탁드립니다
      <<"mun", "seo", " ", "hwag", "xin", " ", "bu", "tag", "hae", "xyo">>,  \* 문서 확인 부탁해요
      <<"hwan", "bul", " ", "hae", "jwo">>,  \* 환불 해줘
      <<"xi", "geo", " ", "sseo">>,  \* 이거 써
      <<"xo", "dae", "chung", "neul", " ", "xo", "dae", "chung", "neul", " ", "jung", "xeu", "ro", " ", "jung", "xeu", "ro">>,  \* 오대충늘 오대충늘 중으로 중으로
      <<"bul", "dae", "chung", "bul", "dae", "chung", "xi", "xig", "xi", "xig", " ", "xeobs", "ge">>,  \* 불대충불대충이익이익 없게
      <<"A", "P", "I", " ", "mun", "seo", " ", "bo", "nae", " ", "ju", "se", "xyo">>,  \* API 문서 보내 주세요
      <<"W", "e", " ", "d", "e", "c", "i", "d", "e", "d", " ", "t", "o", " ", "t", "a", "k", "e", " ", "a", " ", "t", "r", "i", "p", ".">>,
      \* longer than the budget of the short variant: many words, and one word
      <<"da", "xeum", " ", "ju", " ", "xwol", "xyo", "xil", " ", "xo", "jeon", " ", "hoe", "xui", "xe", " ", "pil", "xyo", "han", " ", "bal", "pyo", " ", "ja", "ryo", "xwa", " ", "cham", "go", " ", "mun", "seo", "reul", " ", "mo", "du", " ", "jeong", "ri", "ha", "xyeo", " ", "xi", "beon", " ", "ju", " ", "geum", "xyo", "xil", " ", "toe", "geun", " ", "jeon", "kka", "ji", " ", "tim", " ", "gong", "xyu", " ", "pol", "deo", "xe", " ", "xol", "ryeo", " ", "ju", "si", "go", " ", "dam", "dang", " ", "tim", "jang", "nim", "kke", "do", " ", "me", "xil", "ro", " ", "xal", "ryeo", " ", "ju", "se", "xyo">>,  \* 다음 주 월요일 오전 회의에 필요한 발표 자료와 참고 문서를 모두 정리하여 이번 주 금요일 퇴근 전까지 팀 공유 폴더에 올려 주시고 담당 팀장님께도 메일로 알려 주세요
      <<"hoe", "xui", "ja", "ryo", "xwa", "cham", "go", "mun", "seo", "reul", "mo", "du", "jeong", "ri", "ha", "xyeo", "hoe", "xui", "ja", "ryo", "xwa", "cham", "go", "mun", "seo", "reul", "mo", "du", "jeong", "ri", "ha", "xyeo", "hoe", "xui", "ja", "ryo", "xwa", "cham", "go", "mun", "seo", "reul", "mo", "du", "jeong", "ri", "ha", "xyeo", "hoe", "xui", "ja", "ryo", "xwa", "cham", "go", "mun", "seo", "reul", "mo", "du", "jeong", "ri", "ha", "xyeo", "hoe", "xui", "ja", "ryo", "xwa", "cham", "go", "mun", "seo", "reul", "mo", "du", "jeong", "ri", "ha", "xyeo", "hoe", "xui", "ja", "ryo", "xwa", "cham", "go", "mun", "seo", "reul", "mo", "du", "jeong", "ri", "ha", "xyeo">> }  \* 회의자료와참고문서를모두정리하여회의자료와참고문서를모두정리하여회의자료와참고문서를모두정리하여회의자료와참고문서를모두정리하여회의자료와참고문서를모두정리하여회의자료와참고문서를모두정리하여

\* the calls explored: every text, tone, purpose and length class with the default
\* relationship, strength and details option, in the mode OFF and, for the texts that
\* hold English, PAREN and TWOLINES; and every relationship, strength and details
\* option on the long variants of two tones
Explored(a) ==
    \/ /\ a.relationshipId = "none" /\ a.softToFirm = 50 /\ ~a.autoIncludeDetails
       /\ a.englishHelperMode \in {"paren", "twoLines"} => hasEnglish(a.text)
    \/ /\ a.toneId \in {"friendly", "cultured"}
       /\ a.purposeId = "request"
       /\ a.variantType = "long"
       /\ a.englishHelperMode = "off"

PipeArgs ==
    {a \in [text : PipeTexts, toneId : ToneIds, audienceId : {"adult"},
            purposeId : {"request", "notice"}, relationshipId : {"none", "boss"},
            softToFirm : {50, 80}, format : {"message"},
            variantType : {"short", "standard", "long"}, autoIncludeDetails : BOOLEAN,
            language : {"ko"}, englishHelperMode : {"off", "paren", "twoLines"}] : Explored(a)}

\* the texts and tones validateTextSafety lets through in a fresh process
GatePassed ==
    {<<p[1], p[2]>> : p \in
        {q \in PipeTexts \X ToneIds :
            ~validateTextSafety(q[1], q[2],
                                [k \in 1..Len(DANGEROUS_PATTERNS) |-> 0],
                                [k \in 1..Len(ALLOWED_STRONG_EXPRESSIONS) |-> 0]).blocked}}

passesGate(a) == <<a.text, a.toneId>> \in GatePassed

InitPipe ==
    /\ BYPASS_LIMITS = FALSE
    /\ dangerousLastIndex = [k \in 1..Len(DANGEROUS_PATTERNS) |-> 0]
    /\ allowedLastIndex = [k \in 1..Len(ALLOWED_STRONG_EXPRESSIONS) |-> 0]
    /\ pc = "idle"
    /\ request = NoRequest
    /\ returned = NoResult
    /\ previous = NoResult
    /\ args \in {a \in PipeArgs : passesGate(a)}
    /\ stage = 1
    /\ result = args.text
    /\ threw = FALSE
    /\ usage = [daily |-> 0, weekly |-> 0] /\ body = [hasText |-> FALSE]
    /\ response = [handler |-> "none"]
    /\ QuotaIdle

\* the next statement of applyRewriteRules
RunStage ==
    /\ stage \in 1..Len(Stages)
    /\ ~threw
    /\ LET assign(out) ==
               /\ threw' = out.threw
               /\ result' = out.text
       IN  assign(Stage(stage, result, args))
    /\ stage' = stage + 1
    /\ UNCHANGED args
    /\ UNCHANGED processVars
    /\ UNCHANGED httpVars
    /\ UNCHANGED quotaVars

NextPipe == RunStage

SpecPipe == InitPipe /\ [][NextPipe]_vars

\* applyRewriteRules has returned result
Returned == stage = Len(Stages) + 1 /\ ~threw

(***************************************************************************)
(* The HTTP layer: router.post('/') of routes/rewrite.ts, router.post('/')  *)
(* of the rewrite router kept in routes/templates.ts (single and            *)
(* template-batch mode) and handleRewrite of index.ts.  They run in the     *)
(* process of the pattern tables; usage is the entry of usageStore for the  *)
(* one user the bodies explored come from (no x-user-id header).            *)
(***************************************************************************)
\* data/templates.ts, generateTemplates(): only the purpose id 'request' is in
\* PURPOSE_TYPES, and the limit of 30 is reached within the audience elementary1:
\* format message with the seven relationships, then email, three tones for each.
\* The id template-n is written n.
TEMPLATES ==
    [n \in 1..30 |->
        [id |-> n, purposeId |-> "request", audienceId |-> "elementary1",
         format |-> IF n <= 21 THEN "message" ELSE "email",
         relationshipId |-> <<"none", "friend", "teacher", "parent", "boss", "customer",
                              "client">>[(((n - 1) \div 3) % 7) + 1],
         toneId |-> <<"cultured", "friendly", "warm">>[((n - 1) % 3) + 1]]]

\* String(undefined), what pattern.test(text) searches when the body has no text
Undefined == <<"u", "n", "d", "e", "f", "i", "n", "e", "d">>

\* the JSON bodies posted: the text absent, empty, blank, harmless, or matching a pattern
\* of safety.ts; the tone absent, unknown or known; englishHelperMode absent or off;
\* selectedTemplates absent (<<>>) or a list of template ids (0 is no template's id)
Bodies ==
    {[hasText |-> x[1], text |-> x[2], tonePresetId |-> x[3], purposeTypeId |-> "request",
      audienceLevelId |-> "adult", length |-> "short", englishHelperMode |-> x[4],
      selectedTemplates |-> x[5], plan |-> "missing"] :
        x \in ({<<TRUE, t, "friendly", "off", <<>> >> :
                    t \in {<<>>, <<" ">>, <<"hoe", "xui">>, <<"jug", "xyeo">>, <<"hae", "king">>}}  \* 회의 | 죽여 | 해킹
               \cup {<<FALSE, <<>>, "friendly", "off", <<>> >>,
                     <<FALSE, <<>>, "friendly", "missing", <<>> >>,
                     <<TRUE, <<"hoe", "xui">>, "nonexistent", "off", <<>> >>,  \* 회의
                     <<TRUE, <<"hoe", "xui">>, "missing", "off", <<>> >>,  \* 회의
                     <<TRUE, <<"hoe", "xui">>, "friendly", "missing", <<>> >>}  \* 회의
               \cup {<<TRUE, t, "friendly", "off", sel>> :
                        t \in {<<"hoe", "xui">>, <<"jug", "xyeo">>},  \* 회의 | 죽여
                        sel \in {<<0, 2>>, <<2, 3>>, <<23, 0>>}})}

\* the bodies without selectedTemplates, for the handlers that do not read it
PlainBodies == {b \in Bodies : b.selectedTemplates = <<>>}

\* usageStore holds no entry: checkUsageLimit starts one with these counts
NoUsage == [daily |-> 0, weekly |-> 0]

NoBody == [hasText |-> FALSE]
NoResponse ==
    [handler |-> "none", status |-> 0, gate |-> "none", blocked |-> FALSE,
     variants |-> <<>>, templateResults |-> <<>>]

\* res.status(status).json({ error, ... }); gate tells what the safety gate of the handler
\* said, if it ran
errorResponse(handler, status, gate) ==
    [handler |-> handler, status |-> status, gate |-> gate, blocked |-> FALSE,
     variants |-> <<>>, templateResults |-> <<>>]

\* res.json(result) for a result of rewriteText, res.status(500) when it threw
resultResponse(handler, res) ==
    IF res.threw THEN errorResponse(handler, 500, "passed")
    ELSE [handler |-> handler, status |-> 200,
          gate |-> IF res.safety.reason = "englishHelperMode missing" THEN "none"
                   ELSE IF res.safety.blocked THEN "blocked" ELSE "passed",
          blocked |-> res.safety.blocked, variants |-> res.variants,
          templateResults |-> <<>>]

\* checkUsageLimit(userId, plan): the entry is reset when a week has passed, and the call
\* is allowed below the daily and the weekly limit
checkUsageLimit(used, plan, bypass, weekPassed) ==
    IF bypass THEN [allowed |-> TRUE, usage |-> used]
    ELSE LET checked(u) ==
                 [allowed |-> /\ u.daily < getPlanLimits(plan, bypass).dailyRewrites
                              /\ u.weekly < getPlanLimits(plan, bypass).weeklyRewrites,
                  usage |-> u]
         IN  checked(IF weekPassed THEN NoUsage ELSE used)

\* the mutation of incrementUsage: the daily count alone goes up
incrementUsageDaily(used, bypass) ==
    IF bypass THEN used ELSE [daily |-> used.daily + 1, weekly |-> used.weekly]

\* incrementUsage(userId)
incrementUsage(used, bypass) ==
    IF bypass THEN used ELSE [daily |-> used.daily + 1, weekly |-> used.weekly + 1]

\* the RewriteRequest a body is read as
requestOf(b) ==
    [text |-> IF b.hasText THEN b.text ELSE Undefined,
     tonePresetId |-> b.tonePresetId, purposeTypeId |-> b.purposeTypeId,
     audienceLevelId |-> b.audienceLevelId, relationshipId |-> "none", strength |-> 50,
     format |-> "message", length |-> b.length, autoIncludeDetails |-> FALSE,
     language |-> "missing", englishHelperMode |-> b.englishHelperMode,
     plan |-> IF b.plan = "missing" THEN "free" ELSE b.plan]

\* const templateRequest: RewriteRequest = { text: text.trim(), tonePresetId: template.toneId, ... }
templateRequest(b, template) ==
    [text |-> trim(b.text),
     tonePresetId |-> template.toneId, purposeTypeId |-> template.purposeId,
     audienceLevelId |-> template.audienceId, relationshipId |-> template.relationshipId,
     strength |-> 50, format |-> template.format, length |-> b.length,
     autoIncludeDetails |-> FALSE, language |-> "ko",
     englishHelperMode |-> b.englishHelperMode,
     plan |-> IF b.plan = "missing" THEN "free" ELSE b.plan]

\* a call a handler makes into rewriteEngine.ts
callOf(fn, hasText, req) == [fn |-> fn, hasText |-> hasText, request |-> req]

\* a handler goes on to its calls, or has answered with status
goesOn(used, calls) == [status |-> 0, gate |-> "none", usage |-> used, calls |-> calls]
answers(status, gate, used) ==
    [status |-> status, gate |-> gate, usage |-> used, calls |-> <<>>]

\* router.post('/') of routes/rewrite.ts up to the call of rewriteText: the body is the
\* request
enterRewrite(b, bypass, limit) ==
    IF ~bypass /\ ~limit.allowed THEN answers(429, "none", limit.usage)
    ELSE goesOn(limit.usage, <<callOf("rewriteText", b.hasText, requestOf(b))>>)

\* the mutation of leaveRewrite: whatever the result holds is counted
leaveRewriteCounting(res, used, bypass) ==
    [response |-> resultResponse("rewrite", res), usage |-> incrementUsage(used, bypass)]

\* ... and from its return on: the result is answered, and counted when it holds variants
leaveRewrite(res, used, bypass) ==
    [response |-> resultResponse("rewrite", res),
     usage |-> IF ~res.threw /\ ~bypass /\ ~res.safety.blocked /\ Len(res.variants) > 0
               THEN incrementUsage(used, bypass) ELSE used]

\* router.post('/') of the rewrite router in routes/templates.ts up to its calls: one of
\* rewriteTextForTemplate for each selected template that is found, or one of rewriteText
enterTemplates(b, bypass, used, weekPassed) ==
    LET admitted(limit) ==
            IF ~bypass /\ ~limit.allowed THEN answers(429, "none", limit.usage)
            ELSE IF Len(b.selectedTemplates) > 0
            THEN IF Len(b.selectedTemplates) > 30 THEN answers(400, "none", limit.usage)
                 ELSE goesOn(limit.usage,
                             [k \in 1..Len(b.selectedTemplates) |->
                                 IF b.selectedTemplates[k] \notin DOMAIN TEMPLATES
                                 THEN callOf("none", TRUE, NoRequest)
                                 ELSE callOf("rewriteTextForTemplate", TRUE,
                                             templateRequest(b, TEMPLATES[b.selectedTemplates[k]]))])
            ELSE goesOn(limit.usage,
                        <<callOf("rewriteText", TRUE,
                                 [requestOf(b) EXCEPT !.text = trim(b.text),
                                                      !.language = "ko"])>>)
    IN  IF b.englishHelperMode = "missing" THEN answers(400, "none", used)
        ELSE IF ~b.hasText \/ trim(b.text) = <<>> THEN answers(400, "none", used)
        ELSE IF b.tonePresetId = "missing" THEN answers(400, "none", used)
        ELSE admitted(checkUsageLimit(used, IF b.plan = "missing" THEN "free" ELSE b.plan,
                                      bypass, weekPassed))

\* rewriteTextForTemplate(request) as the loop of the router sees it: the text returned,
\* or the message of the Error thrown (the verdict, unresolved presets, or what
\* applyRewriteRules threw); an id that is no template's gets its item without a call
templateItem(templateId, res) ==
    [templateId |-> templateId,
     text  |-> IF res.threw \/ res.variants = <<>> THEN <<>> ELSE res.variants[1].text,
     error |-> IF templateId \notin DOMAIN TEMPLATES THEN "templateUnknown"
               ELSE IF res.threw THEN "ReferenceError"
               ELSE IF res.safety.blocked THEN res.safety.reason
               ELSE IF res.variants = <<>> THEN "templateNotFound"
               ELSE "none"]

\* ... and from the return of its calls on
leaveTemplates(b, outs, used) ==
    [response |-> IF Len(b.selectedTemplates) > 0
                  THEN [handler |-> "templates", status |-> 200, gate |-> "none",
                        blocked |-> FALSE, variants |-> <<>>,
                        templateResults |->
                            [k \in 1..Len(outs) |-> templateItem(b.selectedTemplates[k], outs[k])]]
                  ELSE resultResponse("templates", outs[1]),
     usage |-> used]

\* safety.ts: BLOCK_PATTERNS (flags iu) and runSafetyCheck(text)
BLOCK_PATTERNS ==
    << Lit(<<"bul", "beob">>) \o <<Star("space")>> \o Lit(<<"jeol", "cha">>), Lit(<<"xwi", "jo">>), Lit(<<"hae", "king">>) >>  \* 불법 | 절차 | 위조 | 해킹
runSafetyCheck(text) ==
    [isSafe |-> \A k \in 1..Len(BLOCK_PATTERNS) : ~test(text, BLOCK_PATTERNS[k])]

\* handleRewrite of index.ts up to the call of rewriteText, for a body without
\* templateId and a request without the x-user-id header, once quotaGuard has let it
\* through: rewriteText gets an object that carries no englishHelperMode
enterIndex(b, used) ==
    IF ~b.hasText \/ trim(b.text) = <<>> THEN answers(400, "none", used)
    ELSE IF ~runSafetyCheck(trim(b.text)).isSafe THEN answers(400, "blocked", used)
    ELSE goesOn(used, <<callOf("rewriteText", TRUE,
                               [requestOf(b) EXCEPT !.text = trim(b.text),
                                                    !.englishHelperMode = "missing"])>>)

\* ... and from its return on: res.json({ ok: true, ...resultObj })
leaveIndex(res, used) ==
    [response |-> IF res.threw THEN errorResponse("index", 500, "passed")
                  ELSE [resultResponse("index", res) EXCEPT !.gate = "passed"],
     usage |-> used]

\* rewriteText (rewriteEngine.ts 54-128) and rewriteTextForTemplate (13-49) from the
\* verdict of validateTextSafety on.  rewriteTextForTemplate runs the steps of
\* rewriteText for the one type 'standard'.  A request without text gets the verdict on
\* 'undefined', and the first stage of applyRewriteRules ends in a TypeError.
engineChecked(call, bypass, safety) ==
    IF call.hasText
    THEN rewriteTyped(call.request,
                      IF call.fn = "rewriteTextForTemplate" THEN <<"standard">>
                      ELSE variantTypesOf(call.request, bypass),
                      safety)
    ELSE [result |-> IF safety.blocked THEN blockedResult(call.request, safety)
                     ELSE IF ~presetsResolved(call.request) THEN variantsResult(<<>>)
                     ELSE thrownResult,
          dangerousLI |-> safety.dangerousLI, allowedLI |-> safety.allowedLI]

\* one call into rewriteEngine.ts, in a process whose pattern tables hold dangerousLI
\* and allowedLI
engine(call, bypass, dangerousLI, allowedLI) ==
    IF call.fn = "none"
    THEN [result |-> NoResult, dangerousLI |-> dangerousLI, allowedLI |-> allowedLI]
    ELSE IF call.fn = "rewriteText" /\ call.request.englishHelperMode = "missing"
    THEN [result |-> missingModeResult, dangerousLI |-> dangerousLI, allowedLI |-> allowedLI]
    ELSE engineChecked(call, bypass,
                       validateTextSafety(call.request.text, call.request.tonePresetId,
                                          dangerousLI, allowedLI))

\* the calls of a handler, one after the other
RECURSIVE runCalls(_, _, _, _, _, _), callDone(_, _, _, _, _)
runCalls(calls, k, outs, bypass, dangerousLI, allowedLI) ==
    IF k > Len(calls)
    THEN [outs |-> outs, dangerousLI |-> dangerousLI, allowedLI |-> allowedLI]
    ELSE callDone(calls, k, outs, bypass, engine(calls[k], bypass, dangerousLI, allowedLI))
callDone(calls, k, outs, bypass, out) ==
    runCalls(calls, k + 1, Append(outs, out.result), bypass, out.dangerousLI, out.allowedLI)

\* the handler of a route up to its calls
enter(route, b, bypass, used, weekPassed) ==
    CASE route = "rewrite" ->
           enterRewrite(b, bypass,
                        checkUsageLimit(used, IF b.plan = "missing" THEN "free" ELSE b.plan,
                                        bypass, weekPassed))
      [] route = "templates" -> enterTemplates(b, bypass, used, weekPassed)
      [] OTHER -> enterIndex(b, used)

\* the handler of a route from the return of its calls on
leave(route, b, bypass, used, ran) ==
    [answer |-> CASE route = "rewrite" -> leaveRewrite(ran.outs[1], used, bypass)
                  [] route = "templates" -> leaveTemplates(b, ran.outs, used)
                  [] OTHER -> leaveIndex(ran.outs[1], used),
     dangerousLI |-> ran.dangerousLI, allowedLI |-> ran.allowedLI]

\* the handler of a route, from the request to the response
handledFrom(route, b, bypass, entered, dangerousLI, allowedLI) ==
    IF entered.status # 0
    THEN [answer |-> [response |-> errorResponse(route, entered.status, entered.gate),
                      usage |-> entered.usage],
          dangerousLI |-> dangerousLI, allowedLI |-> allowedLI]
    ELSE leave(route, b, bypass, entered.usage,
               runCalls(entered.calls, 1, <<>>, bypass, dangerousLI, allowedLI))
handled(route, b, bypass, used, weekPassed, dangerousLI, allowedLI) ==
    handledFrom(route, b, bypass, enter(route, b, bypass, used, weekPassed),
                dangerousLI, allowedLI)

InitHttp ==
    /\ BYPASS_LIMITS \in BOOLEAN
    /\ dangerousLastIndex = [k \in 1..Len(DANGEROUS_PATTERNS) |-> 0]
    /\ allowedLastIndex = [k \in 1..Len(ALLOWED_STRONG_EXPRESSIONS) |-> 0]
    /\ pc = "idle"
    /\ request = NoRequest
    /\ returned = NoResult
    /\ previous = NoResult
    /\ args = NoArgs /\ stage = 0 /\ result = <<>> /\ threw = FALSE
    /\ usage = NoUsage
    /\ body = NoBody
    /\ response = NoResponse
    /\ QuotaIdle

\* a client posts a body to one of the three handlers
Post ==
    /\ pc = "idle"
    /\ \E route \in {"rewrite", "templates", "index"} :
         /\ pc' = route
         /\ body' \in IF route = "templates" THEN Bodies ELSE PlainBodies
    /\ response' = NoResponse
    /\ UNCHANGED <<BYPASS_LIMITS, dangerousLastIndex, allowedLastIndex, request, returned,
                   previous, usage>>
    /\ UNCHANGED pipelineVars
    /\ UNCHANGED quotaVars

\* the handler posted to runs to its response
Handle ==
    /\ pc \in {"rewrite", "templates", "index"}
    /\ \E weekPassed \in IF BYPASS_LIMITS \/ usage = NoUsage \/ pc = "index"
                         THEN {FALSE} ELSE BOOLEAN :
         LET respond(out) ==
                 /\ response' = out.answer.response
                 /\ usage' = out.answer.usage
                 /\ dangerousLastIndex' = out.dangerousLI
                 /\ allowedLastIndex' = out.allowedLI
         IN  respond(handled(pc, body, BYPASS_LIMITS, usage, weekPassed,
                             dangerousLastIndex, allowedLastIndex))
    /\ pc' = "idle"
    /\ UNCHANGED <<BYPASS_LIMITS, request, returned, previous, body>>
    /\ UNCHANGED pipelineVars
    /\ UNCHANGED quotaVars

NextHttp == Post \/ Handle

SpecHttp == InitHttp /\ [][NextHttp]_vars
(***************************************************************************)
(* The stages of applyRewriteRules called by themselves on a candidate     *)
(* text, and applyRewriteRules called on texts of several sentences.       *)
(***************************************************************************)
\* the arguments of a stage: text is the candidate, originalText the input of the request
unitCall(fn, text, originalText) ==
    [fn |-> fn, text |-> text, originalText |-> originalText, toneId |-> "friendly",
     audienceId |-> "adult", purposeId |-> "request", relationshipId |-> "none",
     softToFirm |-> 50, format |-> "message", variantType |-> "standard",
     autoIncludeDetails |-> FALSE, language |-> "ko", englishHelperMode |-> "off"]

\* texts with Latin words: alone, beside Korean, with and without a known phrase
EnglishTexts ==
    {<<"h", "e", "l", "l", "o">>, <<"h", "e", "l", "l", "o", " ", "mun", "seo", " ", "hwag", "xin">>, <<"mun", "seo", " ", "h", "e", "l", "l", "o", " ", "hwag", "xin", " ", "p", "l", "e", "a", "s", "e">>, <<"f", "i", "n", "i", "s", "h", " ", "hae">>,  \* hello 문서 확인 | 문서 hello 확인 please | finish 해
     <<"W", "e", " ", "d", "e", "c", "i", "d", "e", "d", " ", "t", "o", " ", "t", "a", "k", "e", " ", "a", " ", "t", "r", "i", "p", ".">>, <<"A", "P", "I", " ", "mun", "seo", " ", "bo", "nae", " ", "ju", "se", "xyo">>, <<"T", "h", "a", "n", "k", " ", "y", "o", "u", " ", "tim", "jang", "nim">>,  \* API 문서 보내 주세요 | Thank you 팀장님
     <<"r", "e", "p", "o", "r", "t", " ", "bo", "nae", " ", "ju", "se", "xyo">>, <<"mun", "seo", " ", "hwag", "xin">>}  \* report 보내 주세요 | 문서 확인

ConvertCalls == {unitCall("convertEnglishToKorean", t, t) : t \in EnglishTexts}

\* texts for applyPurposeTemplate: empty ones, plain ones, and ones that carry the cue of
\* a purpose
PurposeTexts ==
    {<<>>, <<" ">>, <<"?">>, <<".">>, <<" ", ".", " ">>, <<"hoe", "xui", " ", "ja", "ryo">>, <<"hoe", "xui", " ", "ja", "ryo", " ", "bo", "nae", " ", "ju", "se", "xyo">>,  \* 회의 자료 | 회의 자료 보내 주세요
     <<"gyeong", "go", " ", "deu", "rib", "ni", "da">>, <<"hang", "xui", " ", "hab", "ni", "da">>, <<"xan", "nae", " ", "mal", "sseum">>, <<"gong", "ji", " ", "sa", "hang">>, <<"gyeong", "go", " ", "xan", "nae">>,  \* 경고 드립니다 | 항의 합니다 | 안내 말씀 | 공지 사항 | 경고 안내
     <<"joe", "song", "ha", "ji", "man", " ", "ja", "ryo">>, <<"hu", "gi", " ", "nam", "gib", "ni", "da">>, <<"ja", "ryo", " ", "bu", "tag">>}  \* 죄송하지만 자료 | 후기 남깁니다 | 자료 부탁

PurposeCalls ==
    {[unitCall("applyPurposeTemplate", t, t) EXCEPT !.purposeId = p] :
        t \in PurposeTexts, p \in PURPOSE_TYPES}

\* texts for applySoftRequestRule: directive ones, ones already softened, and ones that
\* hold several request forms
SoftTexts ==
    {<<"hoe", "xui", " ", "ja", "ryo">>, <<"ja", "ryo", " ", "bo", "nae", " ", "ju", "se", "xyo">>, <<"ja", "ryo", " ", "bo", "nae", "ju", "se", "xyo">>, <<"hwag", "xin", "hae", " ", "ju", "se", "xyo">>, <<"hwag", "xin", "hae", "ju", "se", "xyo">>,  \* 회의 자료 | 자료 보내 주세요 | 자료 보내주세요 | 확인해 주세요 | 확인해주세요
     <<"geom", "to", " ", "xyo", "cheong", "deu", "rib", "ni", "da">>, <<"geom", "to", " ", "xyo", "cheong", "hae", "xyo">>, <<"ja", "ryo", " ", "bu", "tag", "deu", "rib", "ni", "da">>, <<"ja", "ryo", " ", "bu", "tag", "hae", "xyo">>,  \* 검토 요청드립니다 | 검토 요청해요 | 자료 부탁드립니다 | 자료 부탁해요
     <<"hwag", "xin", "hae", " ", "ju", "si", "gi", " ", "ba", "rab", "ni", "da">>, <<"hwag", "xin", "hae", "ju", "si", "gi", " ", "ba", "rab", "ni", "da">>,  \* 확인해 주시기 바랍니다 | 확인해주시기 바랍니다
     <<"hwag", "xin", "hae", " ", "ju", "se", "xyo", ".", " ", "ja", "ryo", " ", "bu", "tag", "deu", "rib", "ni", "da">>, <<"hwag", "xin", "hae", " ", "ju", "se", "xyo", " ", "hwag", "xin", "hae", " ", "ju", "se", "xyo">>,  \* 확인해 주세요. 자료 부탁드립니다 | 확인해 주세요 확인해 주세요
     <<"ja", "ryo", " ", "bu", "tag", "deu", "rib", "ni", "da", ".", " ", "hwag", "xin", "hae", " ", "ju", "se", "xyo">>, <<"geom", "to", " ", "xyo", "cheong", "hae", "xyo", "NL", "ja", "ryo", " ", "bu", "tag", "hae", "xyo">>,  \* 자료 부탁드립니다. 확인해 주세요 | 검토 요청해요\n자료 부탁해요
     <<"hwag", "xin", "hae", " ", "ju", "sil", " ", "su", " ", "xiss", "xeul", "kka", "xyo">>, <<"bu", "tag", "deu", "ryeo", "do", " ", "doel", "kka", "xyo">>, <<"gwaen", "chanh", "xeu", "si", "myeon", " ", "hwag", "xin", "hae", " ", "ju", "se", "xyo">>,  \* 확인해 주실 수 있을까요 | 부탁드려도 될까요 | 괜찮으시면 확인해 주세요
     <<"ga", "neung", "ha", "si", "myeon", " ", "hwag", "xin", "hae", " ", "ju", "se", "xyo">>, <<"pyeon", "ha", "sil", " ", "ttae", " ", "ja", "ryo", " ", "bu", "tag", "deu", "rib", "ni", "da">>,  \* 가능하시면 확인해 주세요 | 편하실 때 자료 부탁드립니다
     <<"hwag", "xin", "hae", " ", "ju", "se", "xyo", "NL", "su", " ", "xiss", "xeul", "kka", "xyo">>, <<"doel", "kka", "xyo", " ", "ja", "ryo", " ", "bu", "tag", "deu", "rib", "ni", "da">>}  \* 확인해 주세요\n수 있을까요 | 될까요 자료 부탁드립니다

SoftCalls ==
    {[unitCall("applySoftRequestRule", t, t) EXCEPT !.variantType = v, !.softToFirm = f] :
        t \in SoftTexts, v \in {"short", "standard", "long"}, f \in {30, 50, 80}}

\* candidates for validateParticleOnlyIssue, with and without a dangling particle, and the
\* original texts they come with
ParticleTexts ==
    {<<"ro", " ", "bo", "nae", " ", "ju", "se", "xyo">>, <<"xeu", "ro", " ">>, <<"xeu", "ro", " ", "mun", "seo">>, <<"mun", "seo", " ", "xeu", "ro">>, <<"mun", "seo", " ", "ro", " ">>, <<"mun", "seo", " ", "xeu", "ro", " ", "ro">>,  \* 로 보내 주세요 | 으로  | 으로 문서 | 문서 으로 | 문서 로  | 문서 으로 로
     <<"ro", " ", "ro", " ", "ga">>, <<"mun", "seo", " ", "ro", " ", "3", "si">>, <<"mun", "seo", " ", "hwag", "xin">>}  \* 로 로 가 | 문서 로 3시 | 문서 확인

ParticleCalls ==
    {unitCall("validateParticleOnlyIssue", t, o) :
        t \in ParticleTexts, o \in {<<>>, <<" ">>, <<"mun", "seo", " ", "hwag", "xin">>, <<"ro", " ", "bo", "nae", " ", "ju", "se", "xyo">>}}  \* 문서 확인 | 로 보내 주세요

\* texts of one, two, three and four sentences, with and without the words the length
\* rule looks for
SentenceTexts ==
    {<<"hoe", "xui", " ", "ja", "ryo", " ", "bo", "nae", " ", "ju", "se", "xyo", ".">>,  \* 회의 자료 보내 주세요.
     <<"hoe", "xui", " ", "ja", "ryo", " ", "bo", "nae", " ", "ju", "se", "xyo", ".", " ", "nae", "xil", " ", "hwag", "xin", " ", "bu", "tag", "deu", "rib", "ni", "da", ".">>,  \* 회의 자료 보내 주세요. 내일 확인 부탁드립니다.
     <<"hoe", "xui", " ", "ja", "ryo", " ", "bo", "nae", " ", "ju", "se", "xyo", ".", " ", "hwag", "xin", " ", "bu", "tag", "deu", "rib", "ni", "da", ".", " ", "gam", "sa", "hab", "ni", "da", ".">>,  \* 회의 자료 보내 주세요. 확인 부탁드립니다. 감사합니다.
     <<"ja", "ryo", " ", "bo", "naess", "seub", "ni", "da", ".", " ", "hwag", "xin", "haess", "seub", "ni", "da", ".", " ", "su", "jeong", "haess", "seub", "ni", "da", ".", " ", "da", "si", " ", "bo", "naeb", "ni", "da", ".">>,  \* 자료 보냈습니다. 확인했습니다. 수정했습니다. 다시 보냅니다.
     <<"gwan", "ryeon", " ", "mun", "xui", " ", "deu", "rib", "ni", "da", ".">>,  \* 관련 문의 드립니다.
     <<"hoe", "xui", " ", "ja", "ryo">>}  \* 회의 자료

LengthCalls ==
    {[unitCall(fn, t, t) EXCEPT !.variantType = v, !.toneId = tn, !.autoIncludeDetails = d] :
        fn \in {"applyLengthRule", "applyRewriteRules"}, t \in SentenceTexts,
        v \in {"standard", "long"}, tn \in {"friendly", "cultured"}, d \in BOOLEAN}

UnitCalls == ConvertCalls \cup PurposeCalls \cup SoftCalls \cup ParticleCalls \cup LengthCalls

\* the function a.fn applied to the candidate text
unitOf(a, text) ==
    CASE a.fn = "convertEnglishToKorean" ->
           Returns(convertEnglishToKorean(text, a.englishHelperMode, a.originalText))
      [] a.fn = "applyPurposeTemplate" ->
           Returns(applyPurposeTemplate(text, a.purposeId, a.autoIncludeDetails,
                                        a.originalText))
      [] a.fn = "applySoftRequestRule" ->
           Returns(applySoftRequestRule(text, a.variantType, a.softToFirm))
      [] a.fn = "validateParticleOnlyIssue" ->
           Returns(validateParticleOnlyIssue(text, a.originalText))
      [] a.fn = "applyLengthRule" ->
           Returns(applyLengthRule(text, a.variantType, a.autoIncludeDetails, a.toneId,
                                   a.originalText))
      [] a.fn = "applyRewriteRules" -> applyRewriteRules([a EXCEPT !.text = text])

InitUnit ==
    /\ BYPASS_LIMITS = FALSE
    /\ dangerousLastIndex = [k \in 1..Len(DANGEROUS_PATTERNS) |-> 0]
    /\ allowedLastIndex = [k \in 1..Len(ALLOWED_STRONG_EXPRESSIONS) |-> 0]
    /\ pc = "unit"
    /\ request = NoRequest
    /\ returned = NoResult
    /\ previous = NoResult
    /\ args \in UnitCalls
    /\ stage = 0
    /\ result = args.text
    /\ threw = FALSE
    /\ usage = NoUsage
    /\ body = NoBody
    /\ response = NoResponse
    /\ QuotaIdle

\* the function is applied to the text it was given; applySoftRequestRule also to the
\* text it returned
ApplyUnit ==
    /\ pc = "unit"
    /\ stage = 0 \/ (stage = 1 /\ args.fn = "applySoftRequestRule")
    /\ LET assign(out) ==
               /\ threw' = out.threw
               /\ result' = out.text
       IN  assign(unitOf(args, result))
    /\ stage' = stage + 1
    /\ UNCHANGED args
    /\ UNCHANGED processVars
    /\ UNCHANGED httpVars
    /\ UNCHANGED quotaVars

NextUnit == ApplyUnit

SpecUnit == InitUnit /\ [][NextUnit]_vars

\* the stage fn has been applied once to the text of the call
Applied(fn) == pc = "unit" /\ args.fn = fn /\ stage = 1 /\ ~threw

(***************************************************************************)
(* The preview quota called for one user key over the days: a caller asks   *)
(* checkPreviewQuota for a text, counts the preview with                    *)
(* incrementPreviewUsage once the check allowed it, and asks                *)
(* getPreviewUsage; the clock passes midnight in between.                   *)
(***************************************************************************)
\* the days explored, and the previews counted on one day at most
MaxDay == 3
MaxPreviews == 4

RECURSIVE repeatText(_, _)
repeatText(s, n) == IF n = 0 THEN <<>> ELSE s \o repeatText(s, n - 1)

\* a short sentence; two sentences; 35 characters, which take 10 seconds; 36 characters,
\* which take 11
QuotaTexts ==
    {<<"xan", "nyeong", "ha", "se", "xyo", ".">>,  \* 안녕하세요.
     <<"hoe", "xui", " ", "ja", "ryo", " ", "bo", "nae", " ", "ju", "se", "xyo", ".", " ", "gam", "sa", "hab", "ni", "da", ".">>,  \* 회의 자료 보내 주세요. 감사합니다.
     repeatText(<<"hoe", "xui", "ja", "ryo", "hwag">>, 7),  \* 회의자료확
     repeatText(<<"hoe", "xui", "ja", "ryo", "hwag", "xin">>, 6)}  \* 회의자료확인

InitQuota ==
    /\ BYPASS_LIMITS = FALSE
    /\ dangerousLastIndex = [k \in 1..Len(DANGEROUS_PATTERNS) |-> 0]
    /\ allowedLastIndex = [k \in 1..Len(ALLOWED_STRONG_EXPRESSIONS) |-> 0]
    /\ pc = "quota"
    /\ request = NoRequest
    /\ returned = NoResult
    /\ previous = NoResult
    /\ args = NoArgs /\ stage = 0 /\ result = <<>> /\ threw = FALSE
    /\ usage = NoUsage
    /\ body = NoBody
    /\ response = NoResponse
    /\ config \in QuotaConfigs
    /\ quotaStore = NoQuota
    /\ today = 1
    /\ \E plan \in {"free", "pro"} :
         preview = [plan |-> plan, allowed |-> FALSE, check |-> NoCheck,
                    answer |-> NoAnswer, counted |-> [d \in 1..MaxDay |-> 0]]

\* checkPreviewQuota(identifier, plan, text) runs to its return
CheckPreviewQuota ==
    /\ pc = "quota"
    /\ quotaStore' = getOrCreateUsage(quotaStore, today)
    /\ \E text \in QuotaTexts :
         LET return(check) ==
                 preview' = [preview EXCEPT !.check = check, !.allowed = check.allowed]
         IN  return(checkPreviewQuota(config, quotaStore', preview.plan, text))
    /\ UNCHANGED <<config, today>>
    /\ UNCHANGED processVars
    /\ UNCHANGED pipelineVars
    /\ UNCHANGED httpVars

\* incrementPreviewUsage(identifier), called for the preview the last check allowed
IncrementPreviewUsage ==
    /\ pc = "quota"
    /\ preview.allowed
    /\ preview.counted[today] < MaxPreviews
    /\ quotaStore' = incrementPreviewUsage(getOrCreateUsage(quotaStore, today))
    /\ preview' = [preview EXCEPT !.allowed = FALSE, !.counted[today] = @ + 1]
    /\ UNCHANGED <<config, today>>
    /\ UNCHANGED processVars
    /\ UNCHANGED pipelineVars
    /\ UNCHANGED httpVars

\* getPreviewUsage(identifier, plan) runs to its return
GetPreviewUsage ==
    /\ pc = "quota"
    /\ quotaStore' = getOrCreateUsage(quotaStore, today)
    /\ preview' = [preview EXCEPT
                       !.answer = getPreviewUsage(config, quotaStore', preview.plan)]
    /\ UNCHANGED <<config, today>>
    /\ UNCHANGED processVars
    /\ UNCHANGED pipelineVars
    /\ UNCHANGED httpVars

\* the clock passes midnight: getDateString() names the next day
Midnight ==
    /\ pc = "quota"
    /\ today < MaxDay
    /\ today' = today + 1
    /\ UNCHANGED <<config, quotaStore, preview>>
    /\ UNCHANGED processVars
    /\ UNCHANGED pipelineVars
    /\ UNCHANGED httpVars

NextQuota == CheckPreviewQuota \/ IncrementPreviewUsage \/ GetPreviewUsage \/ Midnight

SpecQuota == InitQuota /\ [][NextQuota]_vars

(***************************************************************************)
(* The properties.  Those about rewriteText as a whole are stated on Spec, *)
(* read when a call has returned (pc = "idle" after a call); those about   *)
(* the text of a variant are stated on SpecPipe, read when                 *)
(* applyRewriteRules has returned.                                         *)
(***************************************************************************)
CallReturned == pc = "idle" /\ request # NoRequest

\* the text holds a match of one of DANGEROUS_PATTERNS (a search from the start of the text)
containsDangerous(text) ==
    \E k \in 1..Len(DANGEROUS_PATTERNS) : test(text, DANGEROUS_PATTERNS[k])

\* C1: every call whose text holds a match of a disallowed-content pattern returns
\* safety.blocked = true and variants = [], whatever calls came before it.  Stated for
\* the calls that carry englishHelperMode (a call without it returns before the gate).
DangerousTextIsBlocked ==
    (CallReturned /\ request.englishHelperMode # "missing" /\ containsDangerous(request.text))
        => (~returned.threw /\ returned.safety.blocked /\ returned.variants = <<>>)

\* C2: in every result rewriteText returns, safety.blocked = true implies that variants
\* is the empty list.
BlockedHasNoVariants ==
    (CallReturned /\ ~returned.threw /\ returned.safety.blocked) => returned.variants = <<>>

\* a call has returned a blocked result
BlockedReturned ==
    CallReturned /\ ~returned.threw /\ returned.safety.blocked

\* the deadline phrases: 기한 내, 기한까지, 오늘 중으로, 오늘까지, 내일까지, N시까지,
\* N일까지, N시간 내, N분 내
DeadlinePhrases ==
    { Lit(<<"gi", "han", " ", "nae">>), Lit(<<"gi", "han", "kka", "ji">>), Lit(<<"xo", "neul", " ", "jung", "xeu", "ro">>), Lit(<<"xo", "neul", "kka", "ji">>),  \* 기한 내 | 기한까지 | 오늘 중으로 | 오늘까지
      Lit(<<"nae", "xil", "kka", "ji">>), Num(<<"si", "kka", "ji">>), Num(<<"xil", "kka", "ji">>), Num(<<"si", "gan", " ", "nae">>), Num(<<"bun", " ", "nae">>) }  \* 내일까지 | 시까지 | 일까지 | 시간 내 | 분 내

\* C3: when the original text holds no temporal cue (hasTimeExpression is false), the
\* variant holds no deadline phrase.
NoDeadlineWithoutTemporalCue ==
    (Returned /\ ~hasTimeExpression(args.text))
        => \A p \in DeadlinePhrases : ~test(result, p)

SanctionPhrases ==
    { <<"da", "xeum", " ", "jo", "chi">>, <<"bul", "xi", "xig">>, <<"je", "jae">>, <<"beob", "jeog", " ", "jeol", "cha">>, <<"si", "jeong", "xi", " ", "xi", "ru", "xeo", "ji", "ji", " ", "xanh", "xeul", " ", "gyeong", "xu">> }  \* 다음 조치 | 불이익 | 제재 | 법적 절차 | 시정이 이루어지지 않을 경우

\* C4: when the original text holds no consequence cue (hasActionExpression is false),
\* the variant holds no sanction or consequence phrase.
NoSanctionWithoutConsequenceCue ==
    (Returned /\ ~hasActionExpression(args.text))
        => \A p \in SanctionPhrases : ~includes(result, p)

\* the days and the clock time a deadline clause can name
DeadlineNames == { <<"xo", "neul">>, <<"nae", "xil">>, <<"mo", "re">>, <<"xo", "hu", " ", "6", "si">> }  \* 오늘 | 내일 | 모레 | 오후 6시

\* C5: every day or clock time a standard or long variant names in a deadline is one
\* the original text names itself.
DeadlineStatedByInput ==
    (Returned /\ args.variantType \in {"standard", "long"})
        => \A d \in DeadlineNames : includes(result, d) => includes(args.text, d)

\* C6: two calls of rewriteText with identical requests return identical results
\* (here: the same request posted twice in a row, after any calls).
SameRequestSameResult ==
    (CallReturned /\ previous # NoResult) => returned = previous

unknownPreset(req) ==
    \/ req.tonePresetId \notin ToneIds
    \/ req.purposeTypeId \notin PURPOSE_TYPES
    \/ req.audienceLevelId \notin AUDIENCE_LEVELS

\* C7: a request the gate does not block, whose tone, purpose or audience id is not in
\* the catalog, gets variants = [] with safety.blocked = false, and nothing is raised.
UnknownPresetGivesNoVariants ==
    (CallReturned /\ unknownPreset(request) /\ ~returned.safety.blocked)
        => (~returned.threw /\ returned.variants = <<>>)

\* a call with an unknown tone id, which carried englishHelperMode and passed the gate,
\* has returned
UnknownToneReturned ==
    /\ CallReturned
    /\ request.tonePresetId \notin ToneIds
    /\ request.englishHelperMode # "missing"
    /\ ~returned.safety.blocked
    /\ ~returned.threw

\* C8: for a request whose tone, purpose and audience ids are in the catalog (warning
\* and protest included), rewriteText completes: no stage throws.
CatalogRequestCompletes ==
    (CallReturned /\ ~unknownPreset(request)) => ~returned.threw

EscalationPhrases == { <<"gyeong", "go", "deu", "rib", "ni", "da">>, <<"hang", "xui", "deu", "rib", "ni", "da">>, <<"hang", "xui">>, <<"si", "jeong", "xyo", "gu">>, <<"xyo", "gu">> }  \* 경고드립니다 | 항의드립니다 | 항의 | 시정요구 | 요구

\* C9: for tone warning or protest with purpose request, the call returns the text as a
\* plain request: variants are returned, and none holds escalation or demand phrasing.
StrongToneRequestIsPlainRequest ==
    (/\ CallReturned
     /\ request.tonePresetId \in {"warning", "protest"}
     /\ request.purposeTypeId = "request"
     /\ request.englishHelperMode # "missing")
        => /\ ~returned.threw
           /\ returned.safety.blocked
                \/ /\ returned.variants # <<>>
                   /\ \A k \in 1..Len(returned.variants) : \A p \in EscalationPhrases :
                        ~includes(returned.variants[k].text, p)

\* C10: with language ko and the bilingual mode off, the variant holds no Latin letter.
NoLatinWhenOff ==
    (Returned /\ args.language = "ko" /\ args.englishHelperMode = "off")
        => ~hasEnglish(result)

(***************************************************************************)
(* The bilingual modes, the style of the endings and the length classes.   *)
(***************************************************************************)
\* the parenthesised groups of a text, and the number of places where w occurs in s
parentheticals(s) == matchAll(s, <<One({"("}), NotStar({")"}), One({")"})>>)
Occurrences(s, w) == Cardinality({k \in 1..Len(s) : MatchAt(s, w, k)})
mixesKoreanWithEnglish(s) == hasHangul(s) /\ hasEnglish(s)

\* C11: with language ko and mode PAREN, a variant of an input that mixes Korean with
\* English holds exactly one parenthetical, and every English span of the input occurs
\* exactly once in the variant, inside that parenthetical
OneParentheticalInParen ==
    (Returned /\ args.language = "ko" /\ args.englishHelperMode = "paren"
       /\ mixesKoreanWithEnglish(args.text))
    => /\ Len(parentheticals(result)) = 1
       /\ \A span \in {matchAll(args.text, englishRuns)[i] :
                          i \in 1..Len(matchAll(args.text, englishRuns))} :
            /\ Occurrences(result, span) = 1
            /\ includes(parentheticals(result)[1], span)

\* C12: with language ko and mode TWOLINES, a variant of an input that holds English is
\* the Korean text, a line feed and the English text: it has exactly two lines, and every
\* English span of the input occurs exactly once in it, on the second line
SecondLineInTwoLines ==
    (Returned /\ args.language = "ko" /\ args.englishHelperMode = "twoLines"
       /\ hasEnglish(args.text))
    => /\ Occurrences(result, <<"NL">>) = 1
       /\ ~hasEnglish(SubSeq(result, 1, IndexFrom(result, <<"NL">>, 1)))
       /\ \A span \in {matchAll(args.text, englishRuns)[i] :
                          i \in 1..Len(matchAll(args.text, englishRuns))} :
            /\ Occurrences(result, span) = 1
            /\ includes(SubSeq(result, IndexFrom(result, <<"NL">>, 1), Len(result)), span)

\* the informal and the formal sentence-final markers
InformalMarkers == {<<"hae", " ", "ju", "se", "xyo">>, <<"hae", "jwo", "xyo">>, <<"hae", "jul", "rae", "xyo">>, <<"sseo", " ", "ju", "se", "xyo">>}  \* 해 주세요 | 해줘요 | 해줄래요 | 써 주세요
FormalMarkers   == {<<"bu", "tag", "deu", "rib", "ni", "da">>, <<"xyo", "cheong", "deu", "rib", "ni", "da">>, <<"xan", "nae", "deu", "rib", "ni", "da">>, <<"deu", "ri", "gess", "seub", "ni", "da">>}  \* 부탁드립니다 | 요청드립니다 | 안내드립니다 | 드리겠습니다

\* C13: no returned variant holds both an informal and a formal sentence-final marker
NoMixedStyle ==
    Returned => ~ /\ \E m \in InformalMarkers : includes(result, m)
                  /\ \E m \in FormalMarkers : includes(result, m)

\* C14: the text of the short variant is at most 80 characters long when it is returned
ShortWithinBudget ==
    (Returned /\ args.variantType = "short") => Len(result) <= ShortLimit

\* the words of out are the first words of candidate, each one whole
wholeWordsOf(out, candidate) ==
    /\ Len(splitWords(out)) <= Len(splitWords(candidate))
    /\ \A i \in 1..Len(splitWords(out)) : splitWords(out)[i] = splitWords(candidate)[i]

\* C15: when applyLengthRule shortens a short candidate longer than 80 characters, what
\* it returns is a sequence of whole words from the start of the candidate
ShortCutsAtWords ==
    [][(/\ stage \in 1..Len(Stages)
        /\ Stages[stage] = "applyLengthRule"
        /\ args.variantType = "short"
        /\ Len(result) > ShortLimit)
       => wholeWordsOf(result', result)]_vars

\* the length classes of the variants of a result, in the order returned
classesOf(res) == [k \in 1..Len(res.variants) |-> res.variants[k].type]

\* the classes the free plan gives for a requested length
FreeClasses(length) ==
    IF length = "short" THEN {"short"}
    ELSE IF length = "long" THEN {"long"}
    ELSE {"standard", "short"}

\* the returned variants are of pairwise distinct classes, at most maxVariants of them:
\* on the free plan without BYPASS_LIMITS the classes of the requested length, on pro and
\* business short, standard and long
classesByPlan ==
    /\ \A j, k \in 1..Len(returned.variants) :
         classesOf(returned)[j] = classesOf(returned)[k] => j = k
    /\ Len(returned.variants) <= getPlanLimits(request.plan, BYPASS_LIMITS).maxVariants
    /\ (request.plan = "free" /\ ~BYPASS_LIMITS)
         => {classesOf(returned)[k] : k \in 1..Len(returned.variants)}
              = FreeClasses(request.length)
    /\ request.plan \in {"pro", "business"}
         => {classesOf(returned)[k] : k \in 1..Len(returned.variants)}
              = {"short", "standard", "long"}

\* a call that carried englishHelperMode and resolvable presets has passed the gate
unblockedResolved ==
    /\ CallReturned
    /\ request.englishHelperMode # "missing"
    /\ presetsResolved(request)
    /\ ~returned.safety.blocked

\* C16: a request the gate does not block, whose presets resolve, returns variants of
\* pairwise distinct length classes, at most maxVariants of them: on the free plan
\* without BYPASS_LIMITS the classes the requested length gives (never all three), on
\* pro and business exactly short, standard and long.  Stated for the calls that carry
\* englishHelperMode.
VariantClassesByPlan == unblockedResolved => (~returned.threw /\ classesByPlan)

\* the calls that do return a result return the classes of the plan
VariantClassesOfReturned == (unblockedResolved /\ ~returned.threw) => classesByPlan

\* the template-batch mode has answered with its result items
BatchAnswered ==
    /\ pc = "idle"
    /\ response.handler = "templates"
    /\ Len(body.selectedTemplates) > 0
    /\ response.status = 200

\* one item for each selected id, in the order selected; an item of an unknown id, and an
\* item whose run threw, carries an error and the empty text
itemsInOrder(selected, items) ==
    /\ Len(items) = Len(selected)
    /\ \A k \in 1..Len(items) :
         /\ items[k].templateId = selected[k]
         /\ selected[k] \notin DOMAIN TEMPLATES => items[k].error # "none"
         /\ items[k].error # "none" => items[k].text = <<>>

\* the item the run of one selected template gives when it runs without its siblings, in
\* the process as the request finds it
itemAlone(b, k) ==
    templateItem(b.selectedTemplates[k],
                 engine(IF b.selectedTemplates[k] \in DOMAIN TEMPLATES
                        THEN callOf("rewriteTextForTemplate", TRUE,
                                    templateRequest(b, TEMPLATES[b.selectedTemplates[k]]))
                        ELSE callOf("none", TRUE, NoRequest),
                        BYPASS_LIMITS, dangerousLastIndex, allowedLastIndex).result)

\* C17: in template-batch mode the response holds one item for each selected id, in the
\* same order; an item of an unknown id or of a run that threw carries an error and the
\* empty text; and every item is the one its own run gives, whatever its siblings did.
BatchItemsIndependent ==
    [][(/\ pc = "templates"
        /\ Len(body.selectedTemplates) > 0
        /\ response'.status = 200)
          => /\ itemsInOrder(body.selectedTemplates, response'.templateResults)
             /\ \A k \in 1..Len(body.selectedTemplates) :
                  response'.templateResults[k] = itemAlone(body, k)]_vars

\* the items are there, one for each id and in order, with the errors where they belong
BatchItemsInOrder ==
    BatchAnswered => itemsInOrder(body.selectedTemplates, response.templateResults)

\* the body carries no text, or one that is empty after trimming
noText(b) == ~b.hasText \/ trim(b.text) = <<>>

\* C18: at the rewrite endpoint (single mode) a request without text, or with a text that
\* is empty after trimming, is answered with a 400-class status; a request the safety
\* gate blocks, or whose preset ids do not resolve, is answered with a 200-class status
\* and safety.blocked = true or no variants; neither is answered with 500.  The second
\* part is stated for the requests the usage limit admits.
EndpointStatus ==
    (/\ pc = "idle"
     /\ response.handler # "none"
     /\ Len(body.selectedTemplates) = 0)
        => /\ noText(body) => response.status \in 400..499
           /\ (/\ ~noText(body)
               /\ response.status # 429
               /\ \/ response.gate = "blocked"
                  \/ body.tonePresetId # "missing" /\ unknownPreset(requestOf(body)))
                => /\ response.status \in 200..299
                   /\ response.blocked \/ response.variants = <<>>

\* the request with the plan and the requested length put to fixed values
onFreeShort(req) == [req EXCEPT !.plan = "free", !.length = "short"]

\* what applyRewriteRules makes of the text of req for one length class, by itself
textOfClass(req, type) == applyRewriteRules(ArgsOf(onFreeShort(req), type)).text

\* C19: the text of a returned variant is what the pipeline makes of the input text, the
\* presets, strength, format, options, language and bilingual mode of the request for the
\* variant's own length class: it is the same whatever the plan and the requested length
\* are, and whatever the other variants of the result are.
VariantTextOwnClass ==
    (CallReturned /\ ~returned.threw)
        => \A k \in 1..Len(returned.variants) :
             returned.variants[k].text = textOfClass(request, returned.variants[k].type)

\* a call on a paid plan has returned the three classes, and one on the free plan two
ReturnedSeveralVariants ==
    /\ CallReturned /\ ~returned.threw
    /\ \/ request.plan = "pro" /\ Len(returned.variants) = 3
       \/ request.plan = "free" /\ request.length = "standard" /\ Len(returned.variants) = 2
    /\ returned.variants[1].text # returned.variants[2].text

\* const formalTones = ['notice-formal', 'cultured', 'firm', 'warning', 'protest']
formalTones == {"notice-formal", "cultured", "firm", "warning", "protest"}

\* the informal verb endings
InformalEndings ==
    {<<"hae">>, <<"hae", "bwa">>, <<"hae", "jwo">>, <<"sseo">>, <<"sseo", "jwo">>, <<"hae", "ra">>, <<"sseo", "ra">>, <<"ha", "ji", "ma">>, <<"ha", "ji", " ", "ma">>}  \* 해 | 해봐 | 해줘 | 써 | 써줘 | 해라 | 써라 | 하지마 | 하지 마

\* s holds one of the endings as a word of its own that ends a sentence: it begins the
\* text or follows white space, and the text or the sentence ends after it
hasInformalEnding(s) ==
    \E e \in InformalEndings : \E i \in 1..Len(s) :
        /\ i = 1 \/ s[i - 1] \in Space
        /\ MatchAt(s, e, i)
        /\ i + Len(e) > Len(s) \/ s[i + Len(e)] \in {".", "!", "?", "NL"}

\* C20: for the formal-locked tones (notice-formal, cultured, firm, warning, protest) no
\* text applyRewriteRules returns holds an informal verb ending as the last word of a
\* sentence
NoInformalEnding ==
    (Returned /\ args.toneId \in formalTones) => ~hasInformalEnding(result)
(***************************************************************************)
(* The claims about the single stages, the usage store and the preview     *)
(* quota.                                                                  *)
(***************************************************************************)
\* the words of Latin letters of s
englishWordsOf(s) == {m : m \in {matchAll(s, englishWord)[i] : i \in 1..Len(matchAll(s, englishWord))}}

\* the number of Hangul syllables of s
hangulCount(s) == Len(SelectSeq(s, IsHangul))

\* C21: with language ko and the bilingual mode OFF, convertEnglishToKorean removes no
\* English word of the text without putting Korean text in its place: when a word of
\* Latin letters of the input is gone from the output, the output holds more Korean
\* than the input did
EnglishReplacedByKorean ==
    (/\ Applied("convertEnglishToKorean")
     /\ args.englishHelperMode = "off"
     /\ \E w \in englishWordsOf(args.text) : ~includes(result, w))
        => hangulCount(result) > hangulCount(args.text)

\* the cues of a purpose the stage looks for: /경고|시정|항의/ and /공지|안내/
hasWarningCue(t) == \E w \in {<<"gyeong", "go">>, <<"si", "jeong">>, <<"hang", "xui">>} : includes(t, w)  \* 경고 | 시정 | 항의
hasNoticeCue(t)  == \E w \in {<<"gong", "ji">>, <<"xan", "nae">>} : includes(t, w)  \* 공지 | 안내

\* the text is empty after trimming, or only '?' or '.'
emptyForPurpose(t) == trim(t) \in {<<>>, <<"?">>, <<".">>}

\* the text carries the cue of a purpose that conflicts with the purpose of the request
conflictingCue(purposeId, t) ==
    \/ purposeId = "notice" /\ hasWarningCue(t)
    \/ purposeId = "complaint" /\ hasNoticeCue(t)

\* C22: applyPurposeTemplate returns the text unchanged when the trimmed text is empty
\* or only '?' or '.', and when the text carries a warning or complaint cue for the
\* purpose notice or a notice cue for the purpose complaint
PurposeTemplateKeepsText ==
    (/\ Applied("applyPurposeTemplate")
     /\ emptyForPurpose(args.text) \/ conflictingCue(args.purposeId, args.text))
        => result = args.text

\* the stage has run on a blank text for the purpose apology, and on a text with a
\* warning cue for the purpose notice
PurposeTemplateKept ==
    /\ Applied("applyPurposeTemplate")
    /\ \/ args.purposeId = "apology" /\ args.text = <<" ", ".", " ">>
       \/ args.purposeId = "notice" /\ hasWarningCue(args.text)
    /\ result = args.text

\* the text carries none of the markers the stage looks for
noPurposeMarker(t) ==
    /\ ~hasWarningCue(t) /\ ~hasNoticeCue(t)
    /\ \A w \in {<<"sa", "gwa">>, <<"joe", "song">>, <<"bu", "tag">>, <<"xyo", "cheong">>, <<"ju", "se", "xyo">>, <<"ju", "si", "gi", " ", "ba", "rab", "ni", "da">>,  \* 사과 | 죄송 | 부탁 | 요청 | 주세요 | 주시기 바랍니다
                 <<"hu", "gi">>, <<"gam", "sa">>, <<"bul", "man">>} : ~includes(t, w)  \* 후기 | 감사 | 불만

\* C23: for each purpose of the catalog (request, notice, apology, review, complaint)
\* and every non-empty text without a purpose marker, applyPurposeTemplate adds the
\* opening or closing phrase of the purpose: what it returns differs from the text
PurposePhraseAdded ==
    (/\ Applied("applyPurposeTemplate")
     /\ args.purposeId \in PURPOSE_TYPES
     /\ ~emptyForPurpose(args.text)
     /\ noPurposeMarker(args.text))
        => result # args.text

SoftenedForms == {<<"su", " ", "xiss", "xeul", "kka", "xyo">>, <<"doel", "kka", "xyo">>, <<"gwaen", "chanh", "xeu", "si", "myeon">>, <<"pyeon", "ha", "sil", " ", "ttae">>}  \* 수 있을까요 | 될까요 | 괜찮으시면 | 편하실 때

startsWithParticle(s) == test(s, particlePatterns[1]) \/ test(s, particlePatterns[2])
endsWithParticle(s)   == test(s, particlePatterns[3]) \/ test(s, particlePatterns[4])

\* C25: what validateParticleOnlyIssue returns neither starts with a dangling particle
\* (으로 or 로 followed by white space) nor ends with one, whatever the candidate and
\* the original text are
NoDanglingParticle ==
    Applied("validateParticleOnlyIssue")
        => ~startsWithParticle(result) /\ ~endsWithParticle(result)

\* where a particle dangled and the original text does not begin with one, the candidate
\* is the original text with the generic framing
ParticleRepairedFromOriginal ==
    (/\ Applied("validateParticleOnlyIssue")
     /\ startsWithParticle(args.text) \/ endsWithParticle(args.text)
     /\ trim(args.originalText) # <<>>
     /\ ~startsWithParticle(args.originalText))
        => result = trim(args.originalText) \o <<"xe", " ", "dae", "hae", " ", "xan", "nae", "deu", "rib", "ni", "da", ".">>  \* 에 대해 안내드립니다.

\* the number of sentences of s: the stretches of text between the marks . ! ? and the
\* line breaks that hold more than white space
sentenceCount(s) ==
    LET mark(c) == c \in {".", "!", "?", "NL"}
        last(i) == \A j \in (i + 1)..Len(s) :
                      (s[j] \notin Space /\ ~mark(s[j]))
                          => \E k \in (i + 1)..(j - 1) : mark(s[k])
    IN  Cardinality({i \in 1..Len(s) : s[i] \notin Space /\ ~mark(s[i]) /\ last(i)})

\* C26: whatever the number of sentences of the input text, the standard variant
\* applyRewriteRules returns holds 1 to 2 sentences and the long variant 2 to 3
SentencesByClass ==
    Applied("applyRewriteRules")
        => /\ args.variantType = "standard" => sentenceCount(result) \in 1..2
           /\ args.variantType = "long" => sentenceCount(result) \in 2..3

\* the same of what applyLengthRule returns for a candidate
SentencesByLengthRule ==
    Applied("applyLengthRule")
        => /\ args.variantType = "standard" => sentenceCount(result) \in 1..2
           /\ args.variantType = "long" => sentenceCount(result) \in 2..3

counted(res) == res.status = 200 /\ ~res.blocked /\ Len(res.variants) > 0

\* C30: at the route of routes/rewrite.ts, when usage is counted, the counts of the user
\* go up by exactly one when, and only when, the result is not blocked and holds a
\* variant; otherwise (429, blocked, presets unresolved) they are left as they are
CountedOnlyWithVariants ==
    [][(pc = "rewrite" /\ ~BYPASS_LIMITS)
         => IF counted(response') THEN usage' = incrementUsage(usage, FALSE)
            ELSE usage' = usage]_vars

\* ... the same, but for the reset of a window that has run out, which the check of the
\* limit does before the rewrite
CountedOnlyWithVariantsInWindow ==
    [][(pc = "rewrite" /\ ~BYPASS_LIMITS)
         => IF counted(response')
            THEN usage' \in {incrementUsage(usage, FALSE), incrementUsage(NoUsage, FALSE)}
            ELSE usage' \in {usage, NoUsage}]_vars

\* the route has counted a second rewrite of the user
SecondRewriteCounted ==
    /\ pc = "idle" /\ response.handler = "rewrite" /\ ~BYPASS_LIMITS
    /\ counted(response) /\ usage.daily = 2

\* the text passes the three length checks of the free plan
withinLengthLimits(text) ==
    /\ estimateDuration(text) <= config.freeMaxLength
    /\ config.freeMaxChars > 0 => Len(text) <= config.freeMaxChars
    /\ config.freeMaxSentences > 0 => countSentences(text) <= config.freeMaxSentences

\* what the two functions answer in this state of the store
usageToday == getOrCreateUsage(quotaStore, today)
remainingNow == getPreviewUsage(config, usageToday, "free").remainingCount
checkNow(text) == checkPreviewQuota(config, usageToday, "free", text)

\* C28: for a free-plan user, in every reachable state of the quota store, a positive
\* remainingCount of getPreviewUsage means that checkPreviewQuota allows a text within
\* the length limits, and a QUOTA_EXCEEDED of checkPreviewQuota means that
\* getPreviewUsage reports remainingCount 0.
UsageAgreesWithCheck ==
    (pc = "quota" /\ preview.plan = "free") =>
        \A text \in QuotaTexts :
            /\ (remainingNow > 0 /\ withinLengthLimits(text)) => checkNow(text).allowed
            /\ checkNow(text).errorCode = "QUOTA_EXCEEDED" => remainingNow = 0

RECURSIVE countedUpTo(_, _)
countedUpTo(c, d) == IF d = 0 THEN 0 ELSE c[d] + countedUpTo(c, d - 1)

\* the previews counted stay within the limits of the free plan, and the daily count of
\* the store entry never exceeds its total count
QuotaWithinLimits ==
    (pc = "quota" /\ preview.plan = "free") =>
        /\ \A d \in 1..MaxDay : preview.counted[d] <= config.freeDailyLimit
        /\ config.freeTotalLimit > 0 =>
               countedUpTo(preview.counted, MaxDay) <= config.freeTotalLimit
        /\ quotaStore.dailyCount <= quotaStore.totalCount

\* a call that finds the entry of an earlier day and counts nothing leaves the entry with
\* dailyCount 0 and the totalCount it had
DayChangeResets ==
    (/\ pc = "quota" /\ preview.plan = "free"
     /\ quotaStore # NoQuota /\ quotaStore'.lastResetDate # quotaStore.lastResetDate
     /\ preview'.counted = preview.counted) =>
        /\ quotaStore'.dailyCount = 0
        /\ quotaStore'.totalCount = quotaStore.totalCount

\* C29: for a free-plan user of one key, when incrementPreviewUsage is called only after
\* checkPreviewQuota allowed, the previews counted on one day never exceed
\* freeDailyLimit, those counted over all days never exceed a positive freeTotalLimit,
\* dailyCount <= totalCount in every state, and a day change resets dailyCount to 0 and
\* leaves totalCount as it is.
QuotaCountsBounded == []QuotaWithinLimits /\ [][DayChangeResets]_vars

\* on a later day the entry was reset after the daily limit had been used up
QuotaResetAfterLimit ==
    /\ pc = "quota" /\ preview.plan = "free"
    /\ preview.counted[1] = config.freeDailyLimit
    /\ quotaStore.lastResetDate = 2
    /\ quotaStore.dailyCount = 0
    /\ quotaStore.totalCount = config.freeDailyLimit
    /\ preview.check.errorCode = "QUOTA_EXCEEDED"

====
